---- MODULE Spec2Model ----
(***************************************************************************)
(* Spartan distributed dense arrays: the splitter (compute_splits), the    *)
(* DistArray built by create / from_table over a sharded table of tiles,   *)
(* and its fetch / update protocol (src/spartan/dense/distarray.py).       *)
(* The extent algebra, the tile module and the table service are not part  *)
(* of the sources at hand; they are modelled from the written              *)
(* specification (sections 4.1, 4.2 and 4.4) and marked as such.           *)
(***************************************************************************)
EXTENDS Integers, Sequences, FiniteSets, TLC

VARIABLES
  darray,   \* the DistArray object: shape, dtype, extents (extent -> shard), built
  table,    \* the sharded table behind it: combiner, num_shards, store
  last,     \* the last DistArray operation: arguments, outcome, table operations issued
  pending,  \* per client: the table.update calls of an update in progress
  call      \* a call of a pure function: its arguments and its result

vars == <<darray, table, last, pending, call>>

----------------------------------------------------------------------------
\* Bounds of the model

\* small axis lengths and tile hints range over 1..MaxDim
MaxDim == 3
\* a DistArray of rank 2 in the state machine holds at most MaxCells elements
MaxCells == 4
\* element values of update data range over 0..MaxVal; stored elements are capped by it
MaxVal == 1
\* table.num_shards() of the DistArray state machine, and the largest num_shards given
\* to compute_splits
NumShards == 2

\* broadcast is called with at most MaxArgs arguments
MaxArgs == 3

\* number of elements per tile
TILE_SIZE == 100000

SmallDims == 1..MaxDim

----------------------------------------------------------------------------
\* Tuples of integers (shapes, ul, lr)

Min(a, b) == IF a <= b THEN a ELSE b

Max(a, b) == IF a >= b THEN a ELSE b

RECURSIVE Prod(_)
Prod(s) == IF Len(s) = 0 THEN 1 ELSE Head(s) * Prod(Tail(s))

RECURSIVE SeqSum(_)
SeqSum(s) == IF Len(s) = 0 THEN 0 ELSE Head(s) + SeqSum(Tail(s))

\* all index tuples p with 0 <= p[i] < shape[i]
IndexSet(shape) ==
  LET top == IF Len(shape) = 0 THEN 0
             ELSE CHOOSE m \in {shape[i] : i \in 1..Len(shape)} :
                    \A i \in 1..Len(shape) : shape[i] <= m
  IN {p \in [1..Len(shape) -> 0..(top - 1)] : \A i \in 1..Len(shape) : p[i] < shape[i]}

----------------------------------------------------------------------------
\* Extent algebra (extent.py)

\* extent.create(ul, lr, array_shape)
ExtentCreate(ul, lr, array_shape) == [ul |-> ul, lr |-> lr, array_shape |-> array_shape]

\* TileExtent.shape
ExtShape(ex) == [i \in 1..Len(ex.ul) |-> ex.lr[i] - ex.ul[i]]

\* TileExtent.size
ExtSize(ex) == Prod(ExtShape(ex))

\* the global indices inside an extent
ExtIndices(ex) ==
  {[i \in 1..Len(ex.ul) |-> p[i] + ex.ul[i]] : p \in IndexSet(ExtShape(ex))}

\* the validity rule of extent.create: 0 <= ul[i] <= lr[i] <= array_shape[i]
ValidExtent(ex) ==
  /\ Len(ex.ul) = Len(ex.array_shape)
  /\ Len(ex.lr) = Len(ex.array_shape)
  /\ \A i \in 1..Len(ex.ul) : 0 <= ex.ul[i] /\ ex.ul[i] <= ex.lr[i]
                              /\ ex.lr[i] <= ex.array_shape[i]

----------------------------------------------------------------------------
\* compute_splits

NoHint == [given |-> FALSE, dims |-> <<>>]

Hint(t) == [given |-> TRUE, dims |-> t]

\* DimSplits without the min(): the last chunk runs past the end of the axis
DimSplits_Unclamped(n, step) ==
  [k \in 1..((n + step - 1) \div step) |-> <<(k - 1) * step, (k - 1) * step + step>>]

\* [(i, min(n, i + step)) for i in range(0, n, step)], step >= 1
DimSplits(n, step) ==
  [k \in 1..((n + step - 1) \div step) |->
     <<(k - 1) * step, Min(n, (k - 1) * step + step)>>]

\* weight before the axis dim is processed: the product of the axes inner to it
Weight(shape, dim) == Prod(SubSeq(shape, dim + 1, Len(shape)))

\* DefaultStep that takes the whole tile budget on every axis
DefaultStep_IgnoreWeight(shape, dim) == Max(1, TILE_SIZE)

\* step = max(1, TILE_SIZE / weight)
DefaultStep(shape, dim) == Max(1, TILE_SIZE \div Weight(shape, dim))

\* Splits that takes the default step on every axis, whatever the hint
Splits_IgnoreHint(shape, tile_hint) ==
  [dim \in 1..Len(shape) |-> DimSplits(shape[dim], DefaultStep(shape, dim))]

\* the per-axis splits of both branches
Splits(shape, tile_hint) ==
  [dim \in 1..Len(shape) |->
     DimSplits(shape[dim],
               IF tile_hint.given THEN tile_hint.dims[dim] ELSE DefaultStep(shape, dim))]

\* itertools.product(*splits): the last axis varies fastest
RECURSIVE Product(_)
Product(splits) ==
  IF Len(splits) = 0 THEN << <<>> >>
  ELSE LET first == Head(splits)
           rest  == Product(Tail(splits))
           m     == Len(rest)
       IN [k \in 1..(Len(first) * m) |->
             <<first[((k - 1) \div m) + 1]>> \o rest[((k - 1) % m) + 1]]

\* ShardIdx without the wrap-around at num_shards
ShardIdx_NoWrap(i, num_shards) == i - 1

\* idx of the i-th (1-based) slc of the product
ShardIdx(i, num_shards) == IF num_shards # -1 THEN (i - 1) % num_shards ELSE i - 1

\* the (extent, idx) pairs in the order the loop of compute_splits makes them
SplitSeq(shape, tile_hint, num_shards) ==
  LET slcs == Product(Splits(shape, tile_hint))
  IN [i \in 1..Len(slcs) |->
        [ex    |-> ExtentCreate([d \in 1..Len(shape) |-> slcs[i][d][1]],
                                [d \in 1..Len(shape) |-> slcs[i][d][2]],
                                shape),
         shard |-> ShardIdx(i, num_shards)]]

\* the dict a sequence of result[ex] = idx assignments leaves
DictOf(pairs) ==
  [ex \in {pairs[i].ex : i \in 1..Len(pairs)} |->
     LET i == CHOOSE j \in 1..Len(pairs) :
                /\ pairs[j].ex = ex
                /\ \A k \in 1..Len(pairs) : pairs[k].ex = ex => k <= j
     IN pairs[i].shard]

\* compute_splits(shape, tile_hint, num_shards): the dict extent -> shard, or the error
\* it raises
compute_splits(shape, tile_hint, num_shards) ==
  IF ~tile_hint.given /\ Len(shape) = 0
    THEN [err |-> "none", extents |-> DictOf(<<[ex |-> ExtentCreate(<<>>, <<>>, <<>>),
                                                shard |-> 0]>>)]
  ELSE IF tile_hint.given /\ Len(tile_hint.dims) # Len(shape)
    THEN [err |-> "AssertionError", extents |-> <<>>]
  ELSE IF tile_hint.given /\ \E d \in 1..Len(shape) : tile_hint.dims[d] = 0
    THEN [err |-> "ValueError", extents |-> <<>>]
  ELSE IF Len(shape) = 0
    THEN [err |-> "ValueError", extents |-> <<>>]
  ELSE [err |-> "none", extents |-> DictOf(SplitSeq(shape, tile_hint, num_shards))]

----------------------------------------------------------------------------
\* Extent algebra, continued (extent.py)

\* the value None of intersection
NoneExtent == [ul |-> <<>>, lr |-> <<>>, array_shape |-> <<-1>>]

\* extent.intersection(a, b): per axis max(ul)..min(lr), None when an axis is empty
intersection(a, b) ==
  LET ul == [i \in 1..Len(a.ul) |-> Max(a.ul[i], b.ul[i])]
      lr == [i \in 1..Len(a.ul) |-> Min(a.lr[i], b.lr[i])]
  IN IF \E i \in 1..Len(a.ul) : ul[i] >= lr[i] THEN NoneExtent
     ELSE ExtentCreate(ul, lr, a.array_shape)

\* extent.offset_slice(outer, inner): inner as per-axis ranges of a buffer shaped
\* like outer
offset_slice(outer, inner) ==
  [i \in 1..Len(inner.ul) |-> <<inner.ul[i] - outer.ul[i], inner.lr[i] - outer.ul[i]>>]

\* extent.ravelled_pos(p, shape): row-major position
RECURSIVE ravelled_pos(_, _)
ravelled_pos(p, shape) ==
  IF Len(p) = 0 THEN 0
  ELSE Head(p) * Prod(Tail(shape)) + ravelled_pos(Tail(p), Tail(shape))

\* a set of extents as a sequence, by the row-major position of ul
RECURSIVE ExtentOrder(_)
ExtentOrder(exts) ==
  IF exts = {} THEN <<>>
  ELSE LET e == CHOOSE x \in exts :
                  \A y \in exts :
                    ravelled_pos(x.ul, x.array_shape) <= ravelled_pos(y.ul, y.array_shape)
       IN <<e>> \o ExtentOrder(exts \ {e})

\* extent.find_overlapping(extents, region): the (extent, intersection) pairs of the
\* extents that intersect region
find_overlapping(exts, region) ==
  LET hits == ExtentOrder({e \in exts : intersection(e, region) # NoneExtent})
  IN [k \in 1..Len(hits) |-> [ex |-> hits[k], isect |-> intersection(hits[k], region)]]

\* extent.find_shape(extents): the element-wise max of lr
find_shape(exts) ==
  LET e0 == CHOOSE e \in exts : TRUE
  IN [i \in 1..Len(e0.ul) |->
        CHOOSE m \in {e.lr[i] : e \in exts} : \A e \in exts : e.lr[i] <= m]

----------------------------------------------------------------------------
\* Dense buffers (numpy arrays)

DTypes == {"float64", "int64"}

NoData == [shape |-> <<>>, dtype |-> "none", data |-> <<>>]

\* an array whose element at p is f(p)
Filled(shape, dtype, v) == [shape |-> shape, dtype |-> dtype,
                            data |-> [p \in IndexSet(shape) |-> v]]

\* index p lies in the per-axis ranges slc
InSlice(p, slc) == \A i \in 1..Len(p) : slc[i][1] <= p[i] /\ p[i] < slc[i][2]

\* arr[slc]
GetSlice(arr, slc) ==
  LET shape == [i \in 1..Len(slc) |-> slc[i][2] - slc[i][1]]
  IN [shape |-> shape, dtype |-> arr.dtype,
      data |-> [p \in IndexSet(shape) |->
                  arr.data[[i \in 1..Len(slc) |-> p[i] + slc[i][1]]]]]

\* arr[slc] = src (the elements are cast to arr.dtype)
SetSlice(arr, slc, src) ==
  [arr EXCEPT !.data =
     [q \in DOMAIN arr.data |->
        IF InSlice(q, slc) THEN src.data[[i \in 1..Len(slc) |-> q[i] - slc[i][1]]]
        ELSE arr.data[q]]]

----------------------------------------------------------------------------
\* Tiles and accumulators (tile.py; the accumulators of distarray.py)

\* tile.from_shape(shape, dtype): zero-filled
from_shape(shape, dtype) == Filled(shape, dtype, 0)

\* tile.from_data(data)
from_data(data) == data

\* tile.from_intersection(owner_ex, isect, data): a tile shaped like owner_ex with
\* data at the offset of isect and zero elsewhere
from_intersection(owner_ex, isect, data) ==
  SetSlice(Filled(ExtShape(owner_ex), data.dtype, 0), offset_slice(owner_ex, isect), data)

take_first(a, b) == a

\* the element function of the accumulators accum_replace, accum_min, accum_max and
\* accum_sum
AccumFn(combiner, a, b) ==
  CASE combiner = "replace" -> take_first(a, b)
    [] combiner = "min" -> Min(a, b)
    [] combiner = "max" -> Max(a, b)
    [] combiner = "sum" -> a + b

\* TileAccum(fn)(old, new): merge two tiles; shape and dtype must match
TileAccum(combiner, old, new) ==
  IF old.shape # new.shape THEN [err |-> "ShapeMismatch", tile |-> old]
  ELSE IF old.dtype # new.dtype THEN [err |-> "DTypeMismatch", tile |-> old]
  ELSE [err |-> "none",
        tile |-> [old EXCEPT !.data = [p \in DOMAIN old.data |->
                                         AccumFn(combiner, old.data[p], new.data[p])]]]

----------------------------------------------------------------------------
\* The sharded table (table service)

Combiners == {"none", "replace", "min", "max", "sum"}

\* master.create_table(sharder, combiner, reducer, selector)
create_table(combiner, num_shards) ==
  [combiner |-> combiner, num_shards |-> num_shards,
   store |-> [s \in 0..(num_shards - 1) |-> <<>>]]

\* table.update(shard, key, value): store, or combine with the value already there
TableUpdate(t, shard, key, value) ==
  IF key \notin DOMAIN t.store[shard] THEN
    [err |-> "none",
     table |-> [t EXCEPT !.store[shard] =
                  [k \in DOMAIN t.store[shard] \cup {key} |->
                     IF k = key THEN value ELSE t.store[shard][k]]]]
  ELSE IF t.combiner = "none" THEN
    [err |-> "none", table |-> [t EXCEPT !.store[shard][key] = value]]
  ELSE LET m == TileAccum(t.combiner, t.store[shard][key], value)
       IN [err |-> m.err,
           table |-> IF m.err = "none" THEN [t EXCEPT !.store[shard][key] = m.tile]
                     ELSE t]

\* distarray.NestedSlice(ex, subslice), and a plain extent key
NestedSlice(ex, subslice) == [nested |-> TRUE, extent |-> ex, subslice |-> subslice]

PlainKey(ex) == [nested |-> FALSE, extent |-> ex, subslice |-> <<>>]

\* TileSelector that ignores the subslice of a NestedSlice
TileSelector_NoSlice(k, v) == v

\* distarray.TileSelector: the whole tile for an extent key, v[subslice] for a
\* NestedSlice
TileSelector(k, v) == IF k.nested THEN GetSlice(v, k.subslice) ELSE v

\* table.get(shard, key): the stored value through the selector
TableGet(t, shard, k) ==
  IF k.extent \notin DOMAIN t.store[shard] THEN [err |-> "KeyError", value |-> NoData]
  ELSE [err |-> "none", value |-> TileSelector(k, t.store[shard][k.extent])]

\* table.keys(): the (shard, key) pairs stored
TableKeys(t) ==
  UNION {{[shard |-> s, key |-> k] : k \in DOMAIN t.store[s]} :
           s \in 0..(t.num_shards - 1)}

----------------------------------------------------------------------------
\* DistArray: create, from_table, fetch, update

\* the loop of create: table.update(shard, ex, tile.from_shape(ex.shape, dtype))
RECURSIVE CreateTiles(_, _, _, _)
CreateTiles(t, extents, order, dtype) ==
  IF Len(order) = 0 THEN t
  ELSE CreateTiles(TableUpdate(t, extents[Head(order)], Head(order),
                               from_shape(ExtShape(Head(order)), dtype)).table,
                   extents, Tail(order), dtype)

\* create(master, shape, dtype, sharder, combiner, reducer, tile_hint) on a master
\* whose tables have num_shards shards
create(shape, dtype, combiner, tile_hint, num_shards) ==
  LET t0 == create_table(combiner, num_shards)
      cs == compute_splits(shape, tile_hint, t0.num_shards)
  IN [err    |-> cs.err,
      darray |-> [shape |-> shape, dtype |-> dtype, extents |-> cs.extents,
                  built |-> "create"],
      table  |-> IF cs.err = "none"
                 THEN CreateTiles(t0, cs.extents, ExtentOrder(DOMAIN cs.extents), dtype)
                 ELSE t0]

\* np.index_exp[0:1] on a tile of the given shape
FirstElementSlice(shape) ==
  [i \in 1..Len(shape) |-> IF i = 1 THEN <<0, 1>> ELSE <<0, shape[i]>>]

\* from_table(table)
from_table(t) ==
  LET keys    == TableKeys(t)
      extents == [k \in {e.key : e \in keys} |->
                    (CHOOSE e \in keys : e.key = k).shard]
      first   == CHOOSE k \in DOMAIN extents : TRUE
  IN [shape   |-> IF keys = {} THEN <<>> ELSE find_shape(DOMAIN extents),
      dtype   |-> IF keys = {} THEN "float64"
                  ELSE TableGet(t, extents[first],
                                NestedSlice(first, FirstElementSlice(ExtShape(first)))
                               ).value.dtype,
      extents |-> extents,
      built   |-> "from_table"]

\* a table operation as issued: the shard addressed and the key
Rpc(shard, ex) == [shard |-> shard, key |-> ex]

\* the loop of fetch over splits; acc holds the buffer tgt, the operations issued so
\* far and, per cell of tgt, how often it has been written
RECURSIVE FetchLoop(_, _, _, _, _)
FetchLoop(da, t, region, splits, acc) ==
  IF Len(splits) = 0 \/ acc.err # "none" THEN acc
  ELSE LET ex        == Head(splits).ex
           isect     == Head(splits).isect
           dst_slice == offset_slice(region, isect)
           shard     == da.extents[ex]
           got       == TableGet(t, shard, NestedSlice(ex, offset_slice(ex, isect)))
       IN FetchLoop(da, t, region, Tail(splits),
            [err    |-> got.err,
             value  |-> IF got.err = "none" THEN SetSlice(acc.value, dst_slice, got.value)
                        ELSE acc.value,
             rpcs   |-> Append(acc.rpcs, Rpc(shard, ex)),
             writes |-> [p \in DOMAIN acc.writes |->
                           IF got.err = "none" /\ InSlice(p, dst_slice)
                           THEN acc.writes[p] + 1 ELSE acc.writes[p]]])

\* fetch whose loop ends after the first overlapping extent
fetch_FirstSplitOnly(da, t, region, garbage) ==
  IF ~(\A i \in 1..Len(region.lr) : region.lr[i] <= da.shape[i]) THEN
    [err |-> "AssertionError", value |-> NoData, rpcs |-> <<>>, writes |-> <<>>]
  ELSE IF region \in DOMAIN da.extents THEN
    LET shard == da.extents[region]
        got   == TableGet(t, shard, PlainKey(region))
    IN [err |-> got.err, value |-> got.value, rpcs |-> <<Rpc(shard, region)>>,
        writes |-> <<>>]
  ELSE
    LET splits == find_overlapping(DOMAIN da.extents, region)
        tgt    == Filled(ExtShape(region), da.dtype, garbage)
    IN FetchLoop(da, t, region, IF Len(splits) = 0 THEN <<>> ELSE <<Head(splits)>>,
                 [err |-> "none", value |-> tgt, rpcs |-> <<>>,
                  writes |-> [p \in IndexSet(ExtShape(region)) |-> 0]])

\* DistArray.fetch(region); the cells of np.ndarray(region.shape) hold garbage until
\* they are written
fetch(da, t, region, garbage) ==
  IF ~(\A i \in 1..Len(region.lr) : region.lr[i] <= da.shape[i]) THEN
    [err |-> "AssertionError", value |-> NoData, rpcs |-> <<>>, writes |-> <<>>]
  ELSE IF region \in DOMAIN da.extents THEN
    LET shard == da.extents[region]
        got   == TableGet(t, shard, PlainKey(region))
    IN [err |-> got.err, value |-> got.value, rpcs |-> <<Rpc(shard, region)>>,
        writes |-> <<>>]
  ELSE
    LET splits == find_overlapping(DOMAIN da.extents, region)
        tgt    == Filled(ExtShape(region), da.dtype, garbage)
    IN FetchLoop(da, t, region, splits,
                 [err |-> "none", value |-> tgt, rpcs |-> <<>>,
                  writes |-> [p \in IndexSet(ExtShape(region)) |-> 0]])

\* UpdateOps that places each piece in its tile at the offset the piece has in data
UpdateOps_SliceOffsets(da, region, data) ==
  IF region \in DOMAIN da.extents THEN
    <<[shard |-> da.extents[region], key |-> region, tile |-> from_data(data)]>>
  ELSE
    LET splits == find_overlapping(DOMAIN da.extents, region)
    IN [k \in 1..Len(splits) |->
          LET dst_key   == splits[k].ex
              isect     == splits[k].isect
              src_slice == offset_slice(region, isect)
              placed    == ExtentCreate(
                             [i \in 1..Len(isect.ul) |-> dst_key.ul[i] + src_slice[i][1]],
                             [i \in 1..Len(isect.ul) |-> dst_key.ul[i] + src_slice[i][2]],
                             isect.array_shape)
          IN [shard |-> da.extents[dst_key], key |-> dst_key,
              tile  |-> from_intersection(dst_key, placed, GetSlice(data, src_slice))]]

\* UpdateOps whose loop ends after the first overlapping extent
UpdateOps_FirstSplitOnly(da, region, data) ==
  IF region \in DOMAIN da.extents THEN
    <<[shard |-> da.extents[region], key |-> region, tile |-> from_data(data)]>>
  ELSE
    LET found  == find_overlapping(DOMAIN da.extents, region)
        splits == IF Len(found) = 0 THEN <<>> ELSE <<Head(found)>>
    IN [k \in 1..Len(splits) |->
          LET dst_key   == splits[k].ex
              isect     == splits[k].isect
              src_slice == offset_slice(region, isect)
          IN [shard |-> da.extents[dst_key], key |-> dst_key,
              tile  |-> from_intersection(dst_key, isect, GetSlice(data, src_slice))]]

\* the table.update calls DistArray.update(region, data) issues after its shape
\* check, in order: shard, key and tile of each
UpdateOps(da, region, data) ==
  IF region \in DOMAIN da.extents THEN
    <<[shard |-> da.extents[region], key |-> region, tile |-> from_data(data)]>>
  ELSE
    LET splits == find_overlapping(DOMAIN da.extents, region)
    IN [k \in 1..Len(splits) |->
          LET dst_key   == splits[k].ex
              isect     == splits[k].isect
              src_slice == offset_slice(region, isect)
          IN [shard |-> da.extents[dst_key], key |-> dst_key,
              tile  |-> from_intersection(dst_key, isect, GetSlice(data, src_slice))]]

\* the table.update calls one after the other; an error ends the loop
RECURSIVE UpdateLoop(_, _)
UpdateLoop(ops, acc) ==
  IF Len(ops) = 0 \/ acc.err # "none" THEN acc
  ELSE LET r == TableUpdate(acc.table, Head(ops).shard, Head(ops).key, Head(ops).tile)
       IN UpdateLoop(Tail(ops),
                     [err |-> r.err, table |-> r.table,
                      rpcs |-> Append(acc.rpcs, Rpc(Head(ops).shard, Head(ops).key))])

\* update without the comparison of region.shape and data.shape
update_NoShapeCheck(da, t, region, data) ==
  UpdateLoop(UpdateOps(da, region, data), [err |-> "none", table |-> t, rpcs |-> <<>>])

\* DistArray.update(region, data)
update(da, t, region, data) ==
  IF ExtShape(region) # data.shape THEN
    [err |-> "ShapeMismatch", table |-> t, rpcs |-> <<>>]
  ELSE UpdateLoop(UpdateOps(da, region, data),
                  [err |-> "none", table |-> t, rpcs |-> <<>>])

----------------------------------------------------------------------------
\* Values of the variables while the part of the program they describe is not in use

NoArray == [shape |-> <<>>, dtype |-> "none", extents |-> <<>>, built |-> "none"]

NoTable == [combiner |-> "unset", num_shards |-> 0, store |-> <<>>]

NoOp == [op |-> "none", region |-> NoneExtent, data |-> NoData, err |-> "none",
         rpcs |-> <<>>, value |-> NoData, writes |-> <<>>]

NoCall == [fn |-> "none"]

----------------------------------------------------------------------------
\* Calls of compute_splits on bounded inputs

\* axis lengths around the tile budget
BigDims == {TILE_SIZE, TILE_SIZE + 1, 2 * TILE_SIZE + 1}

\* shapes of rank 0, 1 and 2; at most one axis of a shape is a big one
SplitShapes ==
  {<<>>}
  \cup {<<n>> : n \in SmallDims \cup BigDims}
  \cup {<<a, b>> : a \in SmallDims, b \in SmallDims \cup BigDims}
  \cup {<<a, b>> : a \in BigDims, b \in SmallDims}

\* tile hints for an axis of length n
HintDims(n) == IF n \in SmallDims THEN 1..(MaxDim + 1) ELSE {TILE_SIZE \div 2, n, n + 1}

\* the tuples with one entry of HintDims per axis
HintTuples(shape) ==
  IF Len(shape) = 0 THEN {<<>>}
  ELSE IF Len(shape) = 1 THEN {<<h>> : h \in HintDims(shape[1])}
  ELSE {<<h1, h2>> : h1 \in HintDims(shape[1]), h2 \in HintDims(shape[2])}

\* absent, one entry per axis, or of the wrong length
SplitHints(shape) ==
  {NoHint}
  \cup {Hint(t) : t \in HintTuples(shape)}
  \cup {Hint(t) : t \in {u \in {<<>>, <<1>>, <<1, 1>>} : Len(u) # Len(shape)}}

SplitInit ==
  /\ darray = NoArray
  /\ table = NoTable
  /\ last = NoOp
  /\ pending = <<>>
  /\ \E shape \in SplitShapes :
       \E tile_hint \in SplitHints(shape) :
         \E num_shards \in {-1} \cup 1..NumShards :
           call = [fn |-> "compute_splits", shape |-> shape, tile_hint |-> tile_hint,
                   num_shards |-> num_shards, done |-> FALSE,
                   result |-> [err |-> "pending", extents |-> <<>>]]

CallComputeSplits ==
  /\ call.fn = "compute_splits"
  /\ ~call.done
  /\ call' = [call EXCEPT !.done = TRUE,
                          !.result = compute_splits(call.shape, call.tile_hint,
                                                    call.num_shards)]
  /\ UNCHANGED <<darray, table, last, pending>>

SplitNext == CallComputeSplits

SplitSpec == SplitInit /\ [][SplitNext]_vars

----------------------------------------------------------------------------
\* Partitions of an index space

\* two extents share no index
Disjoint(a, b) ==
  \/ \E i \in 1..Len(a.ul) : a.lr[i] <= b.ul[i] \/ b.lr[i] <= a.ul[i]
  \/ ExtSize(a) = 0
  \/ ExtSize(b) = 0

RECURSIVE SumSizes(_)
SumSizes(exts) ==
  IF exts = {} THEN 0
  ELSE LET e == CHOOSE x \in exts : TRUE IN ExtSize(e) + SumSizes(exts \ {e})

\* index p lies in extent ex
Contains(ex, p) == \A i \in 1..Len(p) : ex.ul[i] <= p[i] /\ p[i] < ex.lr[i]

\* exts partition [0, shape), stated on volumes: the extents lie inside the index
\* space, no two of them share an index, and together they have as many indices as it
PartitionByVolume(exts, shape) ==
  /\ \A e \in exts : ValidExtent(e) /\ e.array_shape = shape
  /\ \A a \in exts : \A b \in exts : a # b => Disjoint(a, b)
  /\ SumSizes(exts) = Prod(shape)

\* exts partition [0, shape), stated index by index
PartitionByIndex(exts, shape) ==
  \A p \in IndexSet(shape) : Cardinality({e \in exts : Contains(e, p)}) = 1

\* C1: whenever compute_splits returns, the extents it returns partition the index
\* space [0, shape): no two extents overlap and every index lies in exactly one of
\* them (checked index by index when every axis is a small one).
C1_SplitsPartition ==
  (call.fn = "compute_splits" /\ call.done /\ call.result.err = "none") =>
    /\ PartitionByVolume(DOMAIN call.result.extents, call.shape)
    /\ (\A i \in 1..Len(call.shape) : call.shape[i] \in SmallDims) =>
         PartitionByIndex(DOMAIN call.result.extents, call.shape)

\* compute_splits has returned several tiles per axis for a rank-2 shape without a hint
C1_Witness ==
  /\ call.fn = "compute_splits" /\ call.done /\ call.result.err = "none"
  /\ ~call.tile_hint.given
  /\ Len(call.shape) = 2
  /\ Cardinality(DOMAIN call.result.extents) >= 6

----------------------------------------------------------------------------
\* The DistArray state machine: one array, fetched and updated by one client

\* shapes of rank 1 with a small axis, and of rank 2 with at most MaxCells elements
ArrayShapes ==
  {<<n>> : n \in SmallDims}
  \cup {s \in {<<a, b>> : a \in 2..MaxCells, b \in 2..MaxCells} : s[1] * s[2] <= MaxCells}

\* absent, or a tile shape no larger than the array
ArrayHints(shape) ==
  {NoHint}
  \cup {Hint(t) : t \in {u \in [1..Len(shape) -> 1..MaxCells] :
                          \A i \in 1..Len(shape) : u[i] <= shape[i]}}

\* the regions handed to fetch and update: the non-empty boxes inside the array and
\* the empty boxes ul = lr
Regions(shape) ==
  LET corners == IndexSet([i \in 1..Len(shape) |-> shape[i] + 1])
  IN {r \in {ExtentCreate(ul, lr, shape) : ul \in corners, lr \in corners} :
        \/ \A i \in 1..Len(shape) : r.ul[i] < r.lr[i]
        \/ r.ul = r.lr}

\* regions of a larger index space that end one past the end of the array
OutRegions(shape) ==
  LET bigger == [i \in 1..Len(shape) |-> shape[i] + 1]
  IN {ExtentCreate(ul, bigger, bigger) : ul \in {[i \in 1..Len(shape) |-> 0], shape}}

\* an array whose elements count up from c in row-major order, modulo MaxVal + 1
Ramp(shape, dtype, c) ==
  [shape |-> shape, dtype |-> dtype,
   data |-> [p \in IndexSet(shape) |-> (c + ravelled_pos(p, shape)) % (MaxVal + 1)]]

\* the data handed to update(region, data): constant and counting arrays of the shape
\* of region and the dtype of the array, an array of another dtype, and an array one
\* longer than region on the last axis
UpdateData(da, region) ==
  LET shape == ExtShape(region)
  IN {Filled(shape, da.dtype, c) : c \in 0..MaxVal}
     \cup {Ramp(shape, da.dtype, c) : c \in 0..MaxVal}
     \cup {Filled(shape, d, MaxVal) : d \in DTypes \ {da.dtype}}
     \cup {Filled([shape EXCEPT ![Len(shape)] = @ + 1], da.dtype, MaxVal)}

\* every stored element lies in 0..MaxVal
Capped(t) ==
  \A s \in DOMAIN t.store : \A k \in DOMAIN t.store[s] :
    \A p \in DOMAIN t.store[s][k].data : t.store[s][k].data[p] \in 0..MaxVal

\* the tables from_table is given: the output table of a map over a small array of
\* rank 1 (map_to_table's combine_fn defaults to None) whose kernel emitted a tile of
\* ones for some of the extents, the last one among them
MappedTables ==
  {t \in UNION {
     LET cs == compute_splits(<<n>>, Hint(<<h>>), NumShards)
     IN {[combiner |-> "none", num_shards |-> NumShards,
          store |-> [s \in 0..(NumShards - 1) |->
                       [k \in {e \in keys : cs.extents[e] = s} |->
                          Filled(ExtShape(k), d, 1)]]] :
           keys \in SUBSET (DOMAIN cs.extents), d \in DTypes}
     : n \in SmallDims, h \in SmallDims} :
     /\ TableKeys(t) # {}
     /\ \A e \in TableKeys(t) : find_shape({x.key : x \in TableKeys(t)}) = e.key.array_shape}

Init ==
  /\ last = NoOp
  /\ pending = <<>>
  /\ call = NoCall
  /\ \/ \E shape \in ArrayShapes, dtype \in {"float64"}, combiner \in Combiners :
          \E tile_hint \in ArrayHints(shape) :
            LET c == create(shape, dtype, combiner, tile_hint, NumShards)
            IN /\ c.err = "none"
               /\ darray = c.darray
               /\ table = c.table
     \/ \E t \in MappedTables :
          /\ darray = from_table(t)
          /\ table = t

\* the client calls fetch(region)
Fetch ==
  /\ darray.built # "none"
  /\ last.op = "none"
  /\ \E region \in Regions(darray.shape) \cup OutRegions(darray.shape) :
       \E garbage \in 0..MaxVal :
         LET r == fetch(darray, table, region, garbage)
         IN last' = [op |-> "fetch", region |-> region, data |-> NoData, err |-> r.err,
                     rpcs |-> r.rpcs, value |-> r.value, writes |-> r.writes]
  /\ UNCHANGED <<darray, table, pending, call>>

\* the client calls update(region, data)
Update ==
  /\ darray.built # "none"
  /\ last.op = "none"
  /\ \E region \in Regions(darray.shape) :
       \E data \in UpdateData(darray, region) :
         LET r == update(darray, table, region, data)
         IN /\ Capped(r.table)
            /\ table' = r.table
            /\ last' = [op |-> "update", region |-> region, data |-> data,
                        err |-> r.err, rpcs |-> r.rpcs, value |-> NoData,
                        writes |-> <<>>]
  /\ UNCHANGED <<darray, pending, call>>

\* the call has returned (or raised) and the client goes on
Return ==
  /\ darray.built # "none"
  /\ last.op # "none"
  /\ last' = NoOp
  /\ UNCHANGED <<darray, table, pending, call>>

Next == Fetch \/ Update \/ Return

Spec == Init /\ [][Next]_vars

----------------------------------------------------------------------------
\* What the array holds

\* the extents that own the global index q
Owners(q) == {e \in DOMAIN darray.extents : Contains(e, q)}

\* the element stored in table t at the global index q, in the tile of an extent that
\* owns q
StoredAt(t, q) ==
  LET e == CHOOSE x \in Owners(q) : TRUE
  IN t.store[darray.extents[e]][e].data[[i \in 1..Len(q) |-> q[i] - e.ul[i]]]

\* the global index of the cell p of a buffer fetched for region
GlobalIndex(region, p) == [i \in 1..Len(p) |-> region.ul[i] + p[i]]

\* every index of region lies in an extent of the array
Covered(region) == \A q \in ExtIndices(region) : Owners(q) # {}

\* the data update accepts without an error: the shape of region, the dtype of the array
GoodData(region) ==
  {d \in UpdateData(darray, region) : d.shape = ExtShape(region) /\ d.dtype = darray.dtype}

\* every stored element is zero
ZeroFilled(t) ==
  \A s \in DOMAIN t.store : \A k \in DOMAIN t.store[s] :
    \A p \in DOMAIN t.store[s][k].data : t.store[s][k].data[p] = 0

----------------------------------------------------------------------------
\* Claims about fetch and update

\* C2 (as claimed): on an array whose table combiner is "replace", after
\* update(R, data) has returned, fetch(R) returns exactly data, for R an extent of the
\* array or a region that spans or cuts several.
C2_ReplaceRoundTrip ==
  (last.op = "update" /\ last.err = "none" /\ table.combiner = "replace") =>
    \A garbage \in 0..MaxVal :
      LET f == fetch(darray, table, last.region, garbage)
      IN /\ f.err = "none"
         /\ f.value.shape = last.data.shape
         /\ f.value.data = last.data.data

\* C3: on a zero-initialised array built by create with the "sum" combiner, for every
\* region R and all A, B that update accepts, update(R, A); update(R, B); fetch(R)
\* returns the element-wise sum A + B.
C3_SumOfTwoUpdates ==
  (darray.built = "create" /\ table.combiner = "sum" /\ ZeroFilled(table)) =>
    \A R \in Regions(darray.shape) :
      \A A \in GoodData(R) : \A B \in GoodData(R) :
        LET u1 == update(darray, table, R, A)
            u2 == update(darray, u1.table, R, B)
        IN /\ u1.err = "none"
           /\ u2.err = "none"
           /\ \A garbage \in 0..MaxVal :
                LET f == fetch(darray, u2.table, R, garbage)
                IN /\ f.err = "none"
                   /\ f.value.shape = ExtShape(R)
                   /\ \A p \in IndexSet(ExtShape(R)) :
                        f.value.data[p] = A.data[p] + B.data[p]

\* two updates have acted on a region that cuts through extents of a sum array: the
\* last one wrote a counting array and the region now holds ones everywhere
C3_Witness ==
  /\ darray.built = "create" /\ table.combiner = "sum"
  /\ last.op = "update" /\ last.err = "none"
  /\ last.region \notin DOMAIN darray.extents
  /\ Len(last.rpcs) >= 2
  /\ \E p \in DOMAIN last.data.data : last.data.data[p] = 0
  /\ \E p \in DOMAIN last.data.data : last.data.data[p] = 1
  /\ \A q \in ExtIndices(last.region) : StoredAt(table, q) = 1

\* C4: a fetch of a covered region that is not itself a stored extent returns a
\* buffer of the shape of the region in which every cell has been written exactly
\* once and the cell p holds the element stored at the global index region.ul + p in
\* the tile of the one extent that owns that index.
C4_FetchAssembles ==
  (/\ last.op = "fetch" /\ last.err = "none"
   /\ last.region \notin DOMAIN darray.extents
   /\ Covered(last.region)) =>
    /\ last.value.shape = ExtShape(last.region)
    /\ DOMAIN last.value.data = IndexSet(ExtShape(last.region))
    /\ \A p \in IndexSet(ExtShape(last.region)) :
         /\ last.writes[p] = 1
         /\ Cardinality(Owners(GlobalIndex(last.region, p))) = 1
         /\ last.value.data[p] = StoredAt(table, GlobalIndex(last.region, p))

\* a fetch across all four tiles of a rank-2 array whose tiles hold different values
C4_Witness ==
  /\ last.op = "fetch" /\ last.err = "none"
  /\ Len(darray.shape) = 2
  /\ last.region \notin DOMAIN darray.extents
  /\ Len(last.rpcs) = 4
  /\ \E p \in DOMAIN last.value.data : last.value.data[p] = 0
  /\ \E p \in DOMAIN last.value.data : last.value.data[p] = 1

\* C6 (as claimed): in every state reachable from create by update calls, every tile
\* stored under an extent key has the shape of that extent and the dtype of the array.
C6_TilesMatchExtents ==
  darray.built = "create" =>
    \A s \in DOMAIN table.store : \A k \in DOMAIN table.store[s] :
      /\ table.store[s][k].shape = ExtShape(k)
      /\ table.store[s][k].dtype = darray.dtype

\* the extents that share an index with region
Overlapping(region) ==
  {e \in DOMAIN darray.extents : ExtIndices(e) \cap ExtIndices(region) # {}}

\* C7: a fetch or an update that returns without an error has issued exactly one table
\* operation, to the shard of region, when region is a key of the extents map, and
\* otherwise exactly one to the shard of each of the K extents that share an index
\* with region.
C7_OneRpcPerOverlap ==
  (last.op \in {"fetch", "update"} /\ last.err = "none") =>
    IF last.region \in DOMAIN darray.extents
    THEN last.rpcs = <<Rpc(darray.extents[last.region], last.region)>>
    ELSE /\ Len(last.rpcs) = Cardinality(Overlapping(last.region))
         /\ {last.rpcs[i] : i \in 1..Len(last.rpcs)}
              = {Rpc(darray.extents[e], e) : e \in Overlapping(last.region)}

\* an update that is not an extent and spans four tiles has issued four operations
C7_Witness ==
  /\ last.op = "update" /\ last.err = "none"
  /\ last.region \notin DOMAIN darray.extents
  /\ Len(last.rpcs) = 4

\* C8: an update whose data has not the shape of region fails with a shape-mismatch
\* error, issues no table.update and leaves the table as it was.
C8_ShapeMismatchRejected ==
  [][(last'.op = "update" /\ last'.data.shape # ExtShape(last'.region)) =>
       (/\ last'.err = "ShapeMismatch"
        /\ last'.rpcs = <<>>
        /\ table' = table)]_vars

\* an update with data of the wrong shape has been refused on an array that holds
\* something
C8_Witness ==
  /\ last.op = "update"
  /\ last.data.shape # ExtShape(last.region)
  /\ last.err = "ShapeMismatch"
  /\ ~ZeroFilled(table)

\* C9 (as claimed): an update whose data has another dtype than the array fails with
\* a dtype-mismatch error, on the exact-extent path and on the partial-overlap path,
\* and stores nothing.
C9_DTypeMismatchRejected ==
  [][(/\ last'.op = "update"
      /\ last'.data.shape = ExtShape(last'.region)
      /\ ExtSize(last'.region) > 0
      /\ last'.data.dtype # darray.dtype) =>
       (last'.err = "DTypeMismatch" /\ table' = table)]_vars

\* C10 (as claimed): a fetch of a region of which some index lies in no extent fails
\* with an error instead of returning a buffer.
C10_UncoveredFetchFails ==
  (last.op = "fetch" /\ ~Covered(last.region)) => last.err # "none"

----------------------------------------------------------------------------
\* Clients that update one array at the same time. Each client calls update once; the
\* table.update calls of its loop are atomic at the table and interleave with those of
\* the other client in any order.

Clients == {1, 2}

NoUpdateCall == [region |-> NoneExtent, data |-> NoData]

ConcInit ==
  /\ call = NoCall
  /\ last = NoOp
  /\ \E shape \in ArrayShapes : \E tile_hint \in ArrayHints(shape) :
       LET c == create(shape, "float64", "sum", tile_hint, NumShards)
       IN /\ c.err = "none"
          /\ darray = c.darray
          /\ table = c.table
  /\ pending = [c \in Clients |-> [issued |-> NoUpdateCall, queue |-> <<>>]]

\* client c enters update(region, data): the shape check passes and the table.update
\* calls of the call are ahead of it
BeginUpdate(c) ==
  /\ pending[c].issued = NoUpdateCall
  /\ \E region \in Regions(darray.shape) : \E data \in GoodData(region) :
       pending' = [pending EXCEPT ![c] = [issued |-> [region |-> region, data |-> data],
                                          queue  |-> UpdateOps(darray, region, data)]]
  /\ UNCHANGED <<darray, table, last, call>>

\* the table applies the next table.update of client c; an error ends the call
TableUpdateStep(c) ==
  /\ pending[c].queue # <<>>
  /\ LET op == Head(pending[c].queue)
         r  == TableUpdate(table, op.shard, op.key, op.tile)
     IN /\ table' = r.table
        /\ pending' = [pending EXCEPT ![c].queue =
                         IF r.err = "none" THEN Tail(pending[c].queue) ELSE <<>>]
  /\ UNCHANGED <<darray, last, call>>

ConcNext == (\E c \in Clients : BeginUpdate(c)) \/ (\E c \in Clients : TableUpdateStep(c))

ConcSpec == ConcInit /\ [][ConcNext]_vars

\* no table.update of a call that was issued is outstanding
Quiescent == \A c \in Clients : pending[c].queue = <<>>

\* what the update of client c adds to the element at the global index q
Contribution(c, q) ==
  LET u == pending[c].issued
  IN IF u # NoUpdateCall /\ Contains(u.region, q)
     THEN u.data.data[[i \in 1..Len(q) |-> q[i] - u.region.ul[i]]]
     ELSE 0

RECURSIVE SumOfContributions(_, _)
SumOfContributions(cs, q) ==
  IF cs = {} THEN 0
  ELSE LET c == CHOOSE x \in cs : TRUE
       IN Contribution(c, q) + SumOfContributions(cs \ {c}, q)

\* C5: on an array with the "sum" combiner, once every table.update of the updates
\* that clients issued at the same time has been applied, every element equals its
\* initial value (zero after create) plus the sum of what each update adds to it,
\* whatever the order in which the table applied the per-tile updates.
C5_ConcurrentSum ==
  Quiescent =>
    \A q \in IndexSet(darray.shape) :
      StoredAt(table, q) = 0 + SumOfContributions(Clients, q)

\* both clients have updated regions that cut through several tiles and share an
\* element to which both added
C5_Witness ==
  /\ Quiescent
  /\ \A c \in Clients :
       /\ pending[c].issued # NoUpdateCall
       /\ pending[c].issued.region \notin DOMAIN darray.extents
       /\ Cardinality(Overlapping(pending[c].issued.region)) >= 2
  /\ pending[1].issued.region # pending[2].issued.region
  /\ \E q \in IndexSet(darray.shape) :
       /\ \A c \in Clients : Contribution(c, q) = 1
       /\ StoredAt(table, q) = 2

----------------------------------------------------------------------------
\* More claims about compute_splits

\* the chunks [k * h, min(n, (k + 1) * h)), k = 0, 1, ..., of an axis of length n
Chunks(n, h) == {<<k * h, Min(n, (k + 1) * h)>> : k \in 0..((n - 1) \div h)}

\* C18: when a tile hint is given and compute_splits returns, the extents are the
\* boxes that take on every axis i one of the chunks
\* [k * tile_hint[i], min(shape[i], (k + 1) * tile_hint[i])): every extent has the
\* size tile_hint[i] on axis i, but for the last chunk of the axis, which may be
\* shorter and is never empty.
C18_HintChunks ==
  (/\ call.fn = "compute_splits" /\ call.done /\ call.result.err = "none"
   /\ call.tile_hint.given) =>
    LET exts == DOMAIN call.result.extents
        rank == Len(call.shape)
        h    == call.tile_hint.dims
    IN /\ \A e \in exts : \A i \in 1..rank :
            /\ <<e.ul[i], e.lr[i]>> \in Chunks(call.shape[i], h[i])
            /\ e.lr[i] > e.ul[i]
            /\ (e.lr[i] - e.ul[i] = h[i]) \/ (e.lr[i] = call.shape[i])
       /\ Cardinality(exts)
            = Prod([i \in 1..rank |-> Cardinality(Chunks(call.shape[i], h[i]))])

\* a hint that divides neither axis of a rank-2 shape: four extents, the last chunk
\* of each axis shorter than the hint
C18_Witness ==
  /\ call.fn = "compute_splits" /\ call.done /\ call.result.err = "none"
  /\ call.tile_hint.given
  /\ Len(call.shape) = 2
  /\ Cardinality(DOMAIN call.result.extents) >= 4
  /\ \E e \in DOMAIN call.result.extents :
       \A i \in 1..2 : /\ e.lr[i] - e.ul[i] < call.tile_hint.dims[i]
                       /\ e.ul[i] > 0

\* a comes before b in the row-major order of upper-left corners, the order in which
\* itertools.product enumerates the extents
RECURSIVE LexLess(_, _)
LexLess(a, b) ==
  IF Len(a) = 0 THEN FALSE
  ELSE Head(a) < Head(b) \/ (Head(a) = Head(b) /\ LexLess(Tail(a), Tail(b)))

\* the 0-based position of extent e in the enumeration of exts
EnumIndex(e, exts) == Cardinality({x \in exts : LexLess(x.ul, e.ul)})

\* C19: when compute_splits returns, with num_shards given the i-th extent of the
\* enumeration is mapped to the shard i mod num_shards, which lies in
\* [0, num_shards); with num_shards not given (-1) no two extents share a shard.
C19_ShardAssignment ==
  (call.fn = "compute_splits" /\ call.done /\ call.result.err = "none") =>
    LET exts == DOMAIN call.result.extents
        m    == call.result.extents
    IN IF call.num_shards # -1
       THEN \A e \in exts : /\ m[e] = EnumIndex(e, exts) % call.num_shards
                            /\ m[e] \in 0..(call.num_shards - 1)
       ELSE \A e1 \in exts : \A e2 \in exts : e1 # e2 => m[e1] # m[e2]

\* more extents than shards: the assignment has wrapped around
C19_Witness ==
  /\ call.fn = "compute_splits" /\ call.done /\ call.result.err = "none"
  /\ call.num_shards = NumShards
  /\ Cardinality(DOMAIN call.result.extents) > 2 * NumShards
  /\ \E e \in DOMAIN call.result.extents :
       call.result.extents[e] = 0 /\ EnumIndex(e, DOMAIN call.result.extents) > 0

\* C20 (as claimed): for a shape of rank 0, with the tile hint absent or the empty
\* tuple and any num_shards, compute_splits returns exactly one extent, with empty ul
\* and lr, mapped to shard 0.
C20_RankZero ==
  (/\ call.fn = "compute_splits" /\ call.done
   /\ Len(call.shape) = 0
   /\ (call.tile_hint.given => Len(call.tile_hint.dims) = 0)) =>
    /\ call.result.err = "none"
    /\ Cardinality(DOMAIN call.result.extents) = 1
    /\ \A e \in DOMAIN call.result.extents :
         e.ul = <<>> /\ e.lr = <<>> /\ call.result.extents[e] = 0

----------------------------------------------------------------------------
\* best_locality and the Slice view

\* the sequences that hold every element of the set S once
RECURSIVE Orders(_)
Orders(S) ==
  IF S = {} THEN {<<>>}
  ELSE UNION {{<<x>> \o o : o \in Orders(S \ {x})} : x \in S}

\* counts after the loop of best_locality: a defaultdict whose keys are the shards of
\* the overlapping extents, each with the summed size of the overlaps
LocalityCounts(da, ex) ==
  LET splits == find_overlapping(DOMAIN da.extents, ex)
      shards == {da.extents[splits[k].ex] : k \in 1..Len(splits)}
  IN [s \in shards |->
        SeqSum([k \in 1..Len(splits) |->
                  IF da.extents[splits[k].ex] = s THEN ExtSize(splits[k].isect) ELSE 0])]

\* best_locality(array, ex); items is the order in which counts.items() lists the
\* keys of the dict. sorted() is stable, so s_counts[-1] is the key of the greatest
\* count that comes last in items.
best_locality(da, ex, items) ==
  LET counts == LocalityCounts(da, ex)
  IN IF DOMAIN counts = {} THEN [err |-> "IndexError", shard |-> -1]
     ELSE LET best == CHOOSE i \in 1..Len(items) :
                        \A j \in 1..Len(items) :
                          \/ counts[items[j]] < counts[items[i]]
                          \/ (counts[items[j]] = counts[items[i]] /\ j <= i)
          IN [err |-> "none", shard |-> items[best]]

\* extent.offset_from(outer, inner): inner in the coordinates of outer
offset_from(outer, inner) ==
  ExtentCreate([i \in 1..Len(inner.ul) |-> inner.ul[i] - outer.ul[i]],
               [i \in 1..Len(inner.ul) |-> inner.lr[i] - outer.ul[i]],
               ExtShape(outer))

\* TileExtent.to_slice(): the per-axis ranges ul[i]:lr[i]
to_slice(ex) == [i \in 1..Len(ex.ul) |-> <<ex.ul[i], ex.lr[i]>>]

\* extent.compute_slice(base, idx): base[idx] as an extent of the array of base
compute_slice(base, idx) ==
  ExtentCreate([i \in 1..Len(base.ul) |-> base.ul[i] + idx[i][1]],
               [i \in 1..Len(base.ul) |-> base.ul[i] + idx[i][2]],
               base.array_shape)

\* Slice that cuts the extents map of its array down to the extents it overlaps
Slice_CutsExtents(da, idx) ==
  LET hits == find_overlapping(DOMAIN da.extents, idx)
      kept == {hits[k].ex : k \in 1..Len(hits)}
  IN [darray  |-> [da EXCEPT !.extents = [e \in kept |-> da.extents[e]]],
      slice   |-> idx,
      shape   |-> ExtShape(idx),
      extents |-> [k \in 1..Len(hits) |-> offset_from(idx, hits[k].isect)],
      dtype   |-> da.dtype]

\* Slice(darray, idx) for idx a TileExtent
Slice(da, idx) ==
  LET hits == find_overlapping(DOMAIN da.extents, idx)
  IN [darray  |-> da,
      slice   |-> idx,
      shape   |-> ExtShape(idx),
      extents |-> [k \in 1..Len(hits) |-> offset_from(idx, hits[k].isect)],
      dtype   |-> da.dtype]

\* Slice.fetch that hands idx to the parent as it is
Slice_fetch_Untranslated(sl, t, idx, garbage) ==
  fetch(sl.darray, t, ExtentCreate(idx.ul, idx.lr, sl.darray.shape), garbage)

\* Slice.fetch(idx)
Slice_fetch(sl, t, idx, garbage) ==
  fetch(sl.darray, t, compute_slice(sl.slice, to_slice(idx)), garbage)

----------------------------------------------------------------------------
\* broadcast and the Broadcast view

\* an array handed to broadcast: which object it is, and its shape
ArrayObj(id, shape) == [kind |-> "array", id |-> id, shape |-> shape]

\* Broadcast(base, shape)
Broadcast(base, shape) == [kind |-> "Broadcast", base |-> base, shape |-> shape]

\* [1] * diff + orig_shape
Lifted(shape, max_dim) == [i \in 1..(max_dim - Len(shape)) |-> 1] \o shape

\* max of a non-empty set of numbers
SetMax(S) == CHOOSE x \in S : \A y \in S : y <= x

\* broadcast that wraps every argument
broadcast_WrapAll(args) ==
  IF Len(args) = 1 THEN [err |-> "none", results |-> args]
  ELSE IF Len(args) = 0 THEN [err |-> "ValueError", results |-> <<>>]
  ELSE
    LET max_dim    == SetMax({Len(args[i].shape) : i \in 1..Len(args)})
        new_shapes == [i \in 1..Len(args) |-> Lifted(args[i].shape, max_dim)]
        axis_shape(axis) == {new_shapes[i][axis] : i \in 1..Len(args)}
        lifted     == [axis \in 1..max_dim |-> SetMax(axis_shape(axis))]
    IN IF \E axis \in 1..max_dim :
            \/ Cardinality(axis_shape(axis)) > 2
            \/ (Cardinality(axis_shape(axis)) = 2 /\ 1 \notin axis_shape(axis))
       THEN [err |-> "AssertionError", results |-> <<>>]
       ELSE [err |-> "none",
             results |-> [i \in 1..Len(args) |-> Broadcast(args[i], lifted)]]

\* broadcast without the check of the axis sizes
broadcast_Unchecked(args) ==
  IF Len(args) = 1 THEN [err |-> "none", results |-> args]
  ELSE IF Len(args) = 0 THEN [err |-> "ValueError", results |-> <<>>]
  ELSE
    LET max_dim    == SetMax({Len(args[i].shape) : i \in 1..Len(args)})
        new_shapes == [i \in 1..Len(args) |-> Lifted(args[i].shape, max_dim)]
        axis_shape(axis) == {new_shapes[i][axis] : i \in 1..Len(args)}
        lifted     == [axis \in 1..max_dim |-> SetMax(axis_shape(axis))]
    IN [err |-> "none",
        results |-> [i \in 1..Len(args) |->
                       IF lifted = args[i].shape THEN args[i]
                       ELSE Broadcast(args[i], lifted)]]

\* broadcast(args): max() of no dims raises; an axis is checked before it is lifted,
\* so every check sees the sizes the arguments came with
broadcast(args) ==
  IF Len(args) = 1 THEN [err |-> "none", results |-> args]
  ELSE IF Len(args) = 0 THEN [err |-> "ValueError", results |-> <<>>]
  ELSE
    LET max_dim    == SetMax({Len(args[i].shape) : i \in 1..Len(args)})
        new_shapes == [i \in 1..Len(args) |-> Lifted(args[i].shape, max_dim)]
        axis_shape(axis) == {new_shapes[i][axis] : i \in 1..Len(args)}
        lifted     == [axis \in 1..max_dim |-> SetMax(axis_shape(axis))]
    IN IF \E axis \in 1..max_dim :
            \/ Cardinality(axis_shape(axis)) > 2
            \/ (Cardinality(axis_shape(axis)) = 2 /\ 1 \notin axis_shape(axis))
       THEN [err |-> "AssertionError", results |-> <<>>]
       ELSE [err |-> "none",
             results |-> [i \in 1..Len(args) |->
                            IF lifted = args[i].shape THEN args[i]
                            ELSE Broadcast(args[i], lifted)]]

\* the shapes of the arrays handed to broadcast: rank 0, 1 and 2
BcastShapes ==
  {<<>>} \cup {<<n>> : n \in SmallDims} \cup {<<a, b>> : a \in SmallDims, b \in SmallDims}

BcastInit ==
  /\ darray = NoArray
  /\ table = NoTable
  /\ last = NoOp
  /\ pending = <<>>
  /\ call = NoCall

CallBroadcast ==
  /\ call.fn = "none"
  /\ \E n \in 1..MaxArgs : \E shapes \in [1..n -> BcastShapes] :
       LET args == [i \in 1..n |-> ArrayObj(i, shapes[i])]
       IN call' = [fn |-> "broadcast", args |-> args, result |-> broadcast(args)]
  /\ UNCHANGED <<darray, table, last, pending>>

BcastNext == CallBroadcast

BcastSpec == BcastInit /\ [][BcastNext]_vars

\* the size of shape on the axis that is k-th from the right, 1 where shape has no
\* such axis
FromRight(shape, k) == IF k <= Len(shape) THEN shape[Len(shape) - k + 1] ELSE 1

\* the shapes right-aligned with leading 1s agree on every axis but for 1s
Compatible(shapes) ==
  \A k \in 1..SetMax({Len(shapes[i]) : i \in 1..Len(shapes)} \cup {0}) :
    Cardinality({FromRight(shapes[i], k) : i \in 1..Len(shapes)} \ {1}) <= 1

\* the per-axis maximum of the right-aligned shapes
CommonShape(shapes) ==
  LET rank == SetMax({Len(shapes[i]) : i \in 1..Len(shapes)})
  IN [a \in 1..rank |->
        SetMax({FromRight(shapes[i], rank - a + 1) : i \in 1..Len(shapes)})]

\* C13: broadcast of one or more arrays returns exactly when the shapes, right-aligned
\* with leading 1s, have on every axis sizes that are all equal or equal but for 1s,
\* and raises otherwise; when it returns, every returned element reports the same
\* shape, the per-axis maximum of the aligned shapes.
C13_BroadcastAccepts ==
  call.fn = "broadcast" =>
    LET shapes == [i \in 1..Len(call.args) |-> call.args[i].shape]
        res    == call.result
    IN /\ (res.err = "none") <=> Compatible(shapes)
       /\ res.err = "none" =>
            /\ Len(res.results) = Len(call.args)
            /\ \A i \in 1..Len(res.results) : res.results[i].shape = CommonShape(shapes)

\* three arrays of ranks 0, 1 and 2 that are wrapped to one common shape
C13_Witness ==
  /\ call.fn = "broadcast"
  /\ Len(call.args) = 3
  /\ call.result.err = "none"
  /\ {Len(call.args[i].shape) : i \in 1..3} = {0, 1, 2}
  /\ \E i \in 1..3 : call.result.results[i].kind = "Broadcast"
  /\ \E i \in 1..3 : call.result.results[i].shape = <<2, 3>>

\* C15: broadcast of one array returns that array, and in every broadcast that returns
\* an argument whose shape is already the common shape comes back as the same object
\* and not as a Broadcast view (every other argument comes back wrapped).
C15_BroadcastIdentity ==
  (call.fn = "broadcast" /\ call.result.err = "none") =>
    LET shapes == [i \in 1..Len(call.args) |-> call.args[i].shape]
        res    == call.result.results
    IN /\ Len(call.args) = 1 => res = call.args
       /\ \A i \in 1..Len(call.args) :
            IF call.args[i].shape = CommonShape(shapes)
            THEN res[i] = call.args[i]
            ELSE res[i].kind = "Broadcast" /\ res[i].base = call.args[i]

\* of two arguments one has the common shape already and comes back as it is, the
\* other is wrapped
C15_Witness ==
  /\ call.fn = "broadcast"
  /\ Len(call.args) = 2
  /\ call.result.err = "none"
  /\ call.args[1].shape = <<3, 2>>
  /\ call.result.results[1] = call.args[1]
  /\ call.result.results[2].kind = "Broadcast"

----------------------------------------------------------------------------
\* Broadcast.fetch

\* extent.drop_axis(ex, -1): ex without its last axis
drop_axis(ex) ==
  LET n == Len(ex.ul) - 1
  IN ExtentCreate(SubSeq(ex.ul, 1, n), SubSeq(ex.lr, 1, n), SubSeq(ex.array_shape, 1, n))

\* while len(ex.shape) > len(self.base.shape): ex = extent.drop_axis(ex, -1)
RECURSIVE DropExtraAxes(_, _)
DropExtraAxes(ex, rank) ==
  IF Len(ex.ul) > rank THEN DropExtraAxes(drop_axis(ex), rank) ELSE ex

\* the shape NumPy broadcasts the shapes a and b to; <<-1>> when it cannot
NpBroadcastShape(a, b) ==
  LET rank == Max(Len(a), Len(b))
      la   == Lifted(a, rank)
      lb   == Lifted(b, rank)
  IN IF \E i \in 1..rank : la[i] # lb[i] /\ la[i] # 1 /\ lb[i] # 1 THEN <<-1>>
     ELSE [i \in 1..rank |-> IF la[i] = 1 THEN lb[i] ELSE la[i]]

\* arr seen with the shape it broadcasts to: the index is right-aligned and is 0 on
\* the axes where arr has size 1
BroadcastTo(arr, shape) ==
  LET d == Len(shape) - Len(arr.shape)
  IN [shape |-> shape, dtype |-> arr.dtype,
      data  |-> [p \in IndexSet(shape) |->
                   arr.data[[i \in 1..Len(arr.shape) |->
                               IF arr.shape[i] = 1 THEN 0 ELSE p[i + d]]]]]

\* the per-axis ranges of the folded extent: 0:1 where the base has size 1
FoldedRanges(base_shape, ex) ==
  [i \in 1..Len(base_shape) |->
     IF base_shape[i] = 1 THEN <<0, 1>> ELSE <<ex.ul[i], ex.lr[i]>>]

\* Broadcast.fetch(ex) on a view of a DistArray: ex is overwritten by the folded
\* extent before the template is made of ex.shape
Broadcast_fetch(bc, t, region, garbage) ==
  LET base   == bc.base
      ex     == DropExtraAxes(region, Len(base.shape))
      rng    == FoldedRanges(base.shape, ex)
      folded == ExtentCreate([i \in 1..Len(rng) |-> rng[i][1]],
                             [i \in 1..Len(rng) |-> rng[i][2]], base.shape)
  IN IF Len(ex.ul) < Len(base.shape) THEN [err |-> "IndexError", value |-> NoData]
     ELSE IF ~ValidExtent(folded) THEN [err |-> "InvalidExtent", value |-> NoData]
     ELSE LET fetched == fetch(base, t, folded, garbage)
              shape   == NpBroadcastShape(ExtShape(folded), fetched.value.shape)
          IN IF fetched.err # "none" THEN [err |-> fetched.err, value |-> NoData]
             ELSE IF shape = <<-1>> THEN [err |-> "ValueError", value |-> NoData]
             ELSE [err |-> "none", value |-> BroadcastTo(fetched.value, shape)]

----------------------------------------------------------------------------
\* Views over an array that holds data: a DistArray is created, filled with a
\* counting array by one update of its whole extent, and then asked for the best
\* locality of regions and fetched through Slice and Broadcast views.

\* the shapes of the arrays under the views: rank 1 and rank 2, axes of size 1 too
ViewShapes ==
  {<<n>> : n \in SmallDims}
  \cup {s \in {<<a, b>> : a \in SmallDims, b \in SmallDims} : s[1] * s[2] <= MaxCells + 2}

\* the array 1, 2, 3, ... in row-major order
Iota(shape, dtype) ==
  [shape |-> shape, dtype |-> dtype,
   data |-> [p \in IndexSet(shape) |-> 1 + ravelled_pos(p, shape)]]

\* the extent of a whole array
WholeExtent(shape) == ExtentCreate([i \in 1..Len(shape) |-> 0], shape, shape)

ViewInit ==
  /\ call = NoCall
  /\ last = NoOp
  /\ pending = <<>>
  /\ \E shape \in ViewShapes : \E tile_hint \in ArrayHints(shape) :
       LET c == create(shape, "float64", "none", tile_hint, NumShards)
       IN /\ c.err = "none"
          /\ darray = c.darray
          /\ table = c.table

\* update(whole extent, 1, 2, 3, ...)
Populate ==
  /\ call = NoCall
  /\ ZeroFilled(table)
  /\ LET r == update(darray, table, WholeExtent(darray.shape),
                     Iota(darray.shape, darray.dtype))
     IN /\ r.err = "none"
        /\ table' = r.table
  /\ UNCHANGED <<darray, last, pending, call>>

\* best_locality(array, region), the dict listing its keys in any order
CallBestLocality ==
  /\ call = NoCall
  /\ ~ZeroFilled(table)
  /\ \E region \in Regions(darray.shape) :
       \E items \in Orders(DOMAIN LocalityCounts(darray, region)) :
         call' = [fn |-> "best_locality", region |-> region, items |-> items,
                  result |-> best_locality(darray, region, items)]
  /\ UNCHANGED <<darray, table, last, pending>>

\* Slice(array, S).fetch(r) for a non-empty slice S and a region r of the slice
CallSliceFetch ==
  /\ call = NoCall
  /\ ~ZeroFilled(table)
  /\ \E S \in {x \in Regions(darray.shape) : ExtSize(x) > 0} :
       \E r \in Regions(ExtShape(S)) : \E garbage \in 0..MaxVal :
         call' = [fn |-> "Slice.fetch", view |-> Slice(darray, S), region |-> r,
                  result |-> Slice_fetch(Slice(darray, S), table, r, garbage)]
  /\ UNCHANGED <<darray, table, last, pending>>

\* broadcast([array, other]) wraps the array in a Broadcast view; fetch(region) on it
CallBroadcastFetch ==
  /\ call = NoCall
  /\ ~ZeroFilled(table)
  /\ \E other \in BcastShapes :
       LET b == broadcast(<<darray, ArrayObj(2, other)>>)
       IN /\ b.err = "none"
          /\ b.results[1] # darray
          /\ \E region \in Regions(b.results[1].shape) : \E garbage \in 0..MaxVal :
               call' = [fn |-> "Broadcast.fetch", view |-> b.results[1],
                        region |-> region,
                        result |-> Broadcast_fetch(b.results[1], table, region, garbage)]
  /\ UNCHANGED <<darray, table, last, pending>>

ViewReturn ==
  /\ call # NoCall
  /\ call' = NoCall
  /\ UNCHANGED <<darray, table, last, pending>>

ViewNext ==
  \/ Populate
  \/ CallBestLocality
  \/ CallSliceFetch
  \/ CallBroadcastFetch
  \/ ViewReturn

ViewSpec == ViewInit /\ [][ViewNext]_vars

\* the number of elements of region that lie in extents of shard s
OverlapSize(s, region) ==
  Cardinality(UNION {ExtIndices(e) \cap ExtIndices(region) :
                       e \in {x \in DOMAIN darray.extents : darray.extents[x] = s}})

\* C11 (as claimed): for a region that overlaps an extent, best_locality returns the
\* shard whose extents share the most elements with the region, and the lowest shard
\* id among those that share the most.
C11_BestLocality ==
  (call.fn = "best_locality" /\ Overlapping(call.region) # {}) =>
    LET shards == 0..(table.num_shards - 1)
        most   == SetMax({OverlapSize(s, call.region) : s \in shards})
        best   == {s \in shards : OverlapSize(s, call.region) = most}
    IN /\ call.result.err = "none"
       /\ call.result.shard \in best
       /\ \A s \in best : call.result.shard <= s

\* the index of region translated by the upper-left corner of the slice
Translated(r, S) ==
  ExtentCreate([i \in 1..Len(r.ul) |-> r.ul[i] + S.ul[i]],
               [i \in 1..Len(r.ul) |-> r.lr[i] + S.ul[i]], S.array_shape)

\* C12: for a slice S of an array X and a region r in the coordinates of the slice,
\* Slice(X, S).fetch(r) returns what X.fetch returns for r translated by S.ul, the
\* elements of X at S.ul + r.ul + p; for r the whole slice that is X.fetch(S).
C12_SliceFetch ==
  call.fn = "Slice.fetch" =>
    LET S == call.view.slice
        r == call.region
    IN /\ \A garbage \in 0..MaxVal :
            call.result = fetch(darray, table, Translated(r, S), garbage)
       /\ r = WholeExtent(ExtShape(S)) =>
            \A garbage \in 0..MaxVal : call.result = fetch(darray, table, S, garbage)
       /\ call.result.err = "none"
       /\ call.result.value.shape = ExtShape(r)
       /\ \A p \in IndexSet(ExtShape(r)) :
            call.result.value.data[p]
              = StoredAt(table, [i \in 1..Len(p) |-> S.ul[i] + r.ul[i] + p[i]])

\* a region, not the whole, of a slice that does not start at the origin, fetched
\* from several tiles
C12_Witness ==
  /\ call.fn = "Slice.fetch"
  /\ Len(darray.shape) = 2
  /\ \E i \in 1..2 : call.view.slice.ul[i] > 0
  /\ ExtSize(call.region) >= 2
  /\ call.region # WholeExtent(call.view.shape)
  /\ Len(call.result.rpcs) >= 2

\* the index of the base that NumPy reads for the index q of the target: right-aligned,
\* 0 on the axes where the base has size 1
BaseIndex(base_shape, q) ==
  [i \in 1..Len(base_shape) |->
     IF base_shape[i] = 1 THEN 0 ELSE q[i + Len(q) - Len(base_shape)]]

\* C14 (as claimed): Broadcast.fetch(region), for a region inside the target shape,
\* returns an array of the shape of the region whose element at p is the element of
\* the base at the right-aligned index of region.ul + p.
C14_BroadcastFetch ==
  (call.fn = "Broadcast.fetch" /\ ExtSize(call.region) > 0) =>
    /\ call.result.err = "none"
    /\ call.result.value.shape = ExtShape(call.region)
    /\ \A p \in IndexSet(ExtShape(call.region)) :
         call.result.value.data[p]
           = StoredAt(table, BaseIndex(darray.shape, GlobalIndex(call.region, p)))

----------------------------------------------------------------------------
\* The Reshape view (src/spartan/expr/reshape.py): the fields of the view that fetch
\* reads, and fetch over a dense base

\* extent.unravelled_pos(k, shape): the index of the row-major position k
RECURSIVE unravelled_pos(_, _)
unravelled_pos(k, shape) ==
  IF Len(shape) = 0 THEN <<>>
  ELSE <<k \div Prod(Tail(shape))>> \o unravelled_pos(k % Prod(Tail(shape)), Tail(shape))

\* extent.find_rect(ravelled_ul, ravelled_lr, shape): the corners, as row-major
\* positions, of the smallest rectangle that holds the positions ravelled_ul ..
\* ravelled_lr
find_rect(ravelled_ul, ravelled_lr, shape) ==
  LET idx == {unravelled_pos(k, shape) : k \in ravelled_ul..ravelled_lr}
      lo  == [i \in 1..Len(shape) |-> CHOOSE x \in {p[i] : p \in idx} :
                                        \A y \in {p[i] : p \in idx} : x <= y]
      hi  == [i \in 1..Len(shape) |-> SetMax({p[i] : p \in idx})]
  IN [ul |-> ravelled_pos(lo, shape), lr |-> ravelled_pos(hi, shape)]

\* _ravelled_ex with the position of lr in place of that of lr - 1
_ravelled_ex_Exclusive(ul, lr, shape) ==
  [ul |-> ravelled_pos(ul, shape), lr |-> ravelled_pos(lr, shape)]

_ravelled_ex(ul, lr, shape) ==
  [ul |-> ravelled_pos(ul, shape),
   lr |-> ravelled_pos([i \in 1..Len(lr) |-> lr[i] - 1], shape)]

_unravelled_ex(ravelled_ul, ravelled_lr, shape) ==
  [ul |-> unravelled_pos(ravelled_ul, shape), lr |-> unravelled_pos(ravelled_lr, shape)]

\* np.ravel(arr): the elements in row-major order
Ravel(arr) ==
  [k \in 1..Prod(arr.shape) |-> arr.data[unravelled_pos(k - 1, arr.shape)]]

\* seq[a:b] of Python for 0 <= a: the bounds are cut to the length of seq
PySlice(seq, a, b) == SubSeq(seq, Min(a, Len(seq)) + 1, Min(b, Len(seq)))

\* flat.reshape(shape) of a flat sequence of Prod(shape) elements
Reshaped(flat, shape, dtype) ==
  [shape |-> shape, dtype |-> dtype,
   data |-> [p \in IndexSet(shape) |-> flat[ravelled_pos(p, shape) + 1]]]

\* the concatenation of seqs[1], seqs[2], ...
RECURSIVE Concat(_)
Concat(seqs) == IF Len(seqs) = 0 THEN <<>> ELSE Head(seqs) \o Concat(Tail(seqs))

\* _fetch_subarray(tile, ex_shape, array_shape): the elements of the nested list it
\* returns, in order
RECURSIVE _fetch_subarray(_, _, _)
_fetch_subarray(tile, ex_shape, array_shape) ==
  IF Len(ex_shape) = 1 THEN PySlice(tile, 0, ex_shape[1])
  ELSE LET step == Prod(Tail(array_shape))
       IN Concat([k \in 1..ex_shape[1] |->
                    _fetch_subarray(PySlice(tile, (k - 1) * step, Len(tile)),
                                    Tail(ex_shape), Tail(array_shape))])

\* the loop of Reshape.__init__ that looks for one added dimension, from the axis i
\* (0-based) of the base on
RECURSIVE AddDimensionScan(_, _, _, _, _)
AddDimensionScan(shape, base_shape, i, extra, idx) ==
  IF i >= Len(base_shape)
    THEN [is_add_dimension |-> TRUE,
          new_dimension_idx |-> IF extra = 0 THEN Len(shape) - 1 ELSE idx]
  ELSE IF shape[i + extra + 1] # base_shape[i + 1]
    THEN IF extra = 0 /\ shape[i + 1] = 1
           THEN AddDimensionScan(shape, base_shape, i + 1, 1, i)
           ELSE [is_add_dimension |-> FALSE, new_dimension_idx |-> idx]
  ELSE AddDimensionScan(shape, base_shape, i + 1, extra, idx)

\* Reshape(base, shape): there is no comparison of the sizes of shape and base.shape
Reshape(base, shape) ==
  LET scan == IF Len(shape) = Len(base.shape) + 1
              THEN AddDimensionScan(shape, base.shape, 0, 0, -1)
              ELSE [is_add_dimension |-> FALSE, new_dimension_idx |-> -1]
  IN [err  |-> "none",
      view |-> [kind |-> "Reshape", base |-> base, shape |-> shape,
                dtype |-> base.dtype,
                is_add_dimension |-> scan.is_add_dimension,
                new_dimension_idx |-> scan.new_dimension_idx,
                shape_array |-> NoArray]]

\* a sequence without its element at the 0-based position k
WithoutAxis(seq, k) == SubSeq(seq, 1, k) \o SubSeq(seq, k + 2, Len(seq))

\* Reshape.fetch(ex) for a non-empty ex; the base is a DistArray or a Reshape
RECURSIVE Reshape_fetch(_, _, _, _)
Reshape_fetch(v, t, ex, garbage) ==
  LET BaseFetch(base_ex) ==
        IF ~ValidExtent(base_ex) THEN [err |-> "InvalidExtent", value |-> NoData]
        ELSE IF "kind" \in DOMAIN v.base
               THEN Reshape_fetch(v.base, t, base_ex, garbage)
               ELSE LET f == fetch(v.base, t, base_ex, garbage)
                    IN [err |-> f.err, value |-> f.value]
  IN IF v.is_add_dimension THEN
       LET base_ex == ExtentCreate(WithoutAxis(ex.ul, v.new_dimension_idx),
                                   WithoutAxis(ex.lr, v.new_dimension_idx),
                                   v.base.shape)
           got     == BaseFetch(base_ex)
       IN IF got.err # "none" THEN got
          ELSE IF Prod(got.value.shape) # ExtSize(ex)
            THEN [err |-> "ValueError", value |-> NoData]
          ELSE [err |-> "none",
                value |-> Reshaped(Ravel(got.value), ExtShape(ex), got.value.dtype)]
     ELSE
       LET rav      == _ravelled_ex(ex.ul, ex.lr, v.shape)
           base_rav == find_rect(rav.ul, rav.lr, v.base.shape)
           base_idx == _unravelled_ex(base_rav.ul, base_rav.lr, v.base.shape)
           base_ex  == ExtentCreate(base_idx.ul,
                                    [i \in 1..Len(base_idx.lr) |-> base_idx.lr[i] + 1],
                                    v.base.shape)
           got      == BaseFetch(base_ex)
           n        == Len(base_idx.ul) - 1
           cont     == Len(v.shape) = 1 \/ SubSeq(base_idx.ul, 1, n) = SubSeq(base_idx.lr, 1, n)
           flat     == Ravel(got.value)
           tile     == IF cont
                       THEN PySlice(flat, rav.ul - base_rav.ul, rav.lr - base_rav.ul + 1)
                       ELSE _fetch_subarray(PySlice(flat, rav.ul - base_rav.ul, Len(flat)),
                                            ExtShape(ex), v.shape)
       IN IF got.err # "none" THEN got
          ELSE IF Len(tile) # ExtSize(ex) THEN [err |-> "AssertionError", value |-> NoData]
          ELSE [err |-> "none", value |-> Reshaped(tile, ExtShape(ex), got.value.dtype)]

----------------------------------------------------------------------------
\* Reshape views over an array that holds data: the array is created and filled as
\* for the other views, a Reshape view of it is built, possibly a second one on top
\* that goes back to the shape of the array, and a region of the view is fetched.

\* the shapes of the arrays under the Reshape views
ReshapeBases == ViewShapes \cup {<<n>> : n \in 1..(MaxCells + 2)}

\* the shapes asked of Reshape: rank 1 to 3
ReshapeShapes ==
  UNION {{s \in [1..r -> 1..(MaxCells + 2)] : Prod(s) <= MaxCells + 2} : r \in 1..3}

\* _check_extents returns before it computes any split: the view has more axes than
\* its base and repeats the axes of the base at the front
ExtentsUnchecked(base_shape, shape) ==
  /\ Len(shape) > Len(base_shape)
  /\ \A i \in 1..Len(base_shape) : base_shape[i] = shape[i]

ReshapeInit ==
  /\ call = NoCall
  /\ last = NoOp
  /\ pending = <<>>
  /\ \E shape \in ReshapeBases : \E tile_hint \in ArrayHints(shape) :
       LET c == create(shape, "float64", "none", tile_hint, NumShards)
       IN /\ c.err = "none"
          /\ darray = c.darray
          /\ table = c.table

\* Reshape(array, shape), for a shape of the size of the array or one that
\* _check_extents does not look at
NewReshape ==
  /\ call = NoCall
  /\ ~ZeroFilled(table)
  /\ \E shape \in ReshapeShapes :
       /\ Prod(shape) = Prod(darray.shape) \/ ExtentsUnchecked(darray.shape, shape)
       /\ LET r == Reshape(darray, shape)
          IN call' = [fn |-> "Reshape", view |-> r.view, err |-> r.err]
  /\ UNCHANGED <<darray, table, last, pending>>

\* Reshape(view, array.shape) on a view of the size of the array
ReshapeBack ==
  /\ call.fn = "Reshape"
  /\ call.err = "none"
  /\ call.view.base = darray
  /\ Prod(call.view.shape) = Prod(darray.shape)
  /\ LET r == Reshape(call.view, darray.shape)
     IN call' = [fn |-> "Reshape", view |-> r.view, err |-> r.err]
  /\ UNCHANGED <<darray, table, last, pending>>

\* view.fetch(region) for a non-empty region of a view of the size of the array
ReshapeFetch ==
  /\ call.fn = "Reshape"
  /\ call.err = "none"
  /\ Prod(call.view.shape) = Prod(darray.shape)
  /\ \E region \in {x \in Regions(call.view.shape) : ExtSize(x) > 0} :
       \E garbage \in 0..MaxVal :
         call' = [fn |-> "Reshape.fetch", view |-> call.view, region |-> region,
                  result |-> Reshape_fetch(call.view, table, region, garbage)]
  /\ UNCHANGED <<darray, table, last, pending>>

ReshapeNext ==
  \/ Populate
  \/ NewReshape
  \/ ReshapeBack
  \/ ReshapeFetch
  \/ ViewReturn

ReshapeSpec == ReshapeInit /\ [][ReshapeNext]_vars

\* C16 (as claimed): Reshape(base, shape) with prod(shape) # prod(base.shape) fails,
\* so that every Reshape view that was built has the element count of its base.
C16_ReshapeSizeChecked ==
  call.fn = "Reshape" =>
    /\ Prod(call.view.shape) # Prod(call.view.base.shape) => call.err # "none"
    /\ call.err = "none" => Prod(call.view.shape) = Prod(call.view.base.shape)

\* C17: for an array X and a shape s1 of the size of X, the fetch of the whole extent
\* of Reshape(Reshape(X, s1), X.shape) returns an array of the shape of X whose
\* element at p is the element of X at p.
C17_ReshapeRoundTrip ==
  (/\ call.fn = "Reshape.fetch"
   /\ "kind" \in DOMAIN call.view.base
   /\ call.view.base.base = darray
   /\ call.view.shape = darray.shape
   /\ call.region = WholeExtent(darray.shape))
  => /\ call.result.err = "none"
     /\ call.result.value.shape = darray.shape
     /\ \A p \in IndexSet(darray.shape) :
          call.result.value.data[p] = StoredAt(table, p)

\* the round trip of an array of shape (2, 3) stored in several tiles, through a
\* shape of another rank
C17_Witness ==
  /\ call.fn = "Reshape.fetch"
  /\ "kind" \in DOMAIN call.view.base
  /\ call.view.base.base = darray
  /\ call.view.shape = darray.shape
  /\ call.region = WholeExtent(darray.shape)
  /\ darray.shape = <<2, 3>>
  /\ Len(call.view.base.shape) # 2
  /\ Cardinality(DOMAIN darray.extents) >= 2
  /\ call.result.err = "none"

\* the element of the array at the row-major position k
StoredAtPos(t, k) == StoredAt(t, unravelled_pos(k, darray.shape))

\* C21 (as claimed): for every region of a Reshape view of the array that is not on
\* the add-a-dimension path, fetch(region) returns an array of the shape of the region
\* whose element at p is the element of the base at the row-major position of
\* region.ul + p in the shape of the view.
C21_ReshapeFetchGeneral ==
  (/\ call.fn = "Reshape.fetch"
   /\ call.view.base = darray
   /\ ~call.view.is_add_dimension)
  => /\ call.result.err = "none"
     /\ call.result.value.shape = ExtShape(call.region)
     /\ \A p \in IndexSet(ExtShape(call.region)) :
          call.result.value.data[p]
            = StoredAtPos(table, ravelled_pos(GlobalIndex(call.region, p), call.view.shape))

\* the 0-based positions k at which one axis of size 1, inserted into base_shape,
\* gives shape
InsertedAxes(base_shape, shape) ==
  {k \in 0..Len(base_shape) :
     shape = SubSeq(base_shape, 1, k) \o <<1>> \o SubSeq(base_shape, k + 1, Len(base_shape))}

\* C24 (as claimed): a Reshape view of the array is on the add-a-dimension path exactly
\* when its shape is the shape of the array with one axis of size 1 inserted, at the
\* front, in the middle or at the end; fetch(region) on that path returns, in the
\* shape of the region, the elements of the array at the indices of the region
\* without the inserted axis.
C24_AddAxisPath ==
  (call.fn \in {"Reshape", "Reshape.fetch"} /\ call.view.base = darray) =>
    LET axes == InsertedAxes(darray.shape, call.view.shape)
    IN /\ call.view.is_add_dimension <=> (axes # {})
       /\ (call.fn = "Reshape.fetch" /\ axes # {}) =>
            /\ call.result.err = "none"
            /\ call.result.value.shape = ExtShape(call.region)
            /\ \A p \in IndexSet(ExtShape(call.region)) : \A k \in axes :
                 call.result.value.data[p]
                   = StoredAt(table, WithoutAxis(GlobalIndex(call.region, p), k))

----------------------------------------------------------------------------
\* The tiles of a Reshape view: _tile_shape, _same_tiles and shape_array, the fields
\* foreach_tile reads and writes. The specification above builds its views of the
\* fields fetch reads; here a view carries them all.

\* the tile shapes good_tile_shape(shape, num_workers) may give: any tile that fits
GoodTileShapes(shape) ==
  {u \in [1..Len(shape) -> 1..(MaxCells + 2)] : \A i \in 1..Len(shape) : u[i] <= shape[i]}

\* Python's `a != b` for an integer a and a tuple b
IntDiffersFromTuple(a, b) == TRUE

\* the condition `rect_ul or ul or rect_lr != lr` of _check_extents for one slc:
\* rect_ul and rect_lr are row-major positions, ul and lr the tuples zip() gives; a
\* position is true when it is not 0, a tuple when it has an element
TileDiffers(slc, shape, base_shape) ==
  LET ul   == [d \in 1..Len(slc) |-> slc[d][1]]
      lr   == [d \in 1..Len(slc) |-> slc[d][2]]
      rav  == _ravelled_ex(ul, lr, shape)
      rect == find_rect(rav.ul, rav.lr, base_shape)
  IN rect.ul # 0 \/ Len(ul) # 0 \/ IntDiffersFromTuple(rect.lr, lr)

\* _check_extents(): the value it leaves in _same_tiles
_check_extents(base_shape, shape, tile_shape) ==
  IF ExtentsUnchecked(base_shape, shape) THEN TRUE
  ELSE IF Len(shape) > Len(base_shape) THEN FALSE
  ELSE LET slcs == Product(Splits(shape, Hint(tile_shape)))
       IN \A k \in 1..Len(slcs) : ~TileDiffers(slcs[k], shape, base_shape)

\* Reshape(base, shape) with every field, tile_shape being what good_tile_shape gave
TiledReshape(base, shape, tile_shape) ==
  LET r == Reshape(base, shape)
  IN [kind |-> "Reshape", base |-> base, shape |-> shape, dtype |-> r.view.dtype,
      is_add_dimension |-> r.view.is_add_dimension,
      new_dimension_idx |-> r.view.new_dimension_idx,
      _tile_shape |-> tile_shape,
      _same_tiles |-> _check_extents(base.shape, shape, tile_shape),
      shape_array |-> NoArray]

\* foreach_tile that creates shape_array without a look at _same_tiles
foreach_tile_Unconditional(v) ==
  LET made == IF v.shape_array = NoArray
              THEN create(v.shape, v.dtype, "none", Hint(v._tile_shape), NumShards).darray
              ELSE v.shape_array
  IN [view  |-> [v EXCEPT !.shape_array = made],
      tiles |-> DOMAIN made.extents]

\* foreach_tile(mapper_fn): the view afterwards and the extents _tile_mapper hands to
\* the user function, one per tile
foreach_tile(v) ==
  IF v._same_tiles
    THEN [view  |-> v,
          tiles |-> {LET rav == _ravelled_ex(ex.ul, ex.lr, v.base.shape)
                         unr == _unravelled_ex(rav.ul, rav.lr, v.shape)
                     IN ExtentCreate(unr.ul, [i \in 1..Len(unr.lr) |-> unr.lr[i] + 1],
                                     v.shape) : ex \in DOMAIN v.base.extents}]
  ELSE LET made == IF v.shape_array = NoArray
                   THEN create(v.shape, v.dtype, "none", Hint(v._tile_shape),
                               NumShards).darray
                   ELSE v.shape_array
       IN [view  |-> [v EXCEPT !.shape_array = made],
           tiles |-> DOMAIN made.extents]

\* Reshape(array, shape), as NewReshape
NewTiledReshape ==
  /\ call = NoCall
  /\ \E shape \in ReshapeShapes : \E tile_shape \in GoodTileShapes(shape) :
       /\ Prod(shape) = Prod(darray.shape) \/ ExtentsUnchecked(darray.shape, shape)
       /\ call' = [fn |-> "Reshape", view |-> TiledReshape(darray, shape, tile_shape)]
  /\ UNCHANGED <<darray, table, last, pending>>

\* view.foreach_tile(mapper_fn)
ForeachTile ==
  /\ call # NoCall
  /\ LET r == foreach_tile(call.view)
     IN call' = [fn |-> "foreach_tile", view |-> r.view, tiles |-> r.tiles]
  /\ UNCHANGED <<darray, table, last, pending>>

\* view.fetch(whole extent) on a view of the size of the array
TiledFetch ==
  /\ call # NoCall
  /\ Prod(call.view.shape) = Prod(darray.shape)
  /\ \E garbage \in 0..MaxVal :
       call' = [fn |-> "Reshape.fetch", view |-> call.view,
                result |-> Reshape_fetch(call.view, table,
                                         WholeExtent(call.view.shape), garbage)]
  /\ UNCHANGED <<darray, table, last, pending>>

\* the view is dropped
DropView ==
  /\ call # NoCall
  /\ call' = NoCall
  /\ UNCHANGED <<darray, table, last, pending>>

TileNext ==
  \/ NewTiledReshape
  \/ ForeachTile
  \/ TiledFetch
  \/ DropView

TileSpec == ReshapeInit /\ [][TileNext]_vars

\* one step of a view, from construction on, keeps to the state machine of C22
ViewStepOk ==
  call' # NoCall =>
    /\ call'.fn = "Reshape" => call'.view.shape_array = NoArray
    /\ call'.view._same_tiles => call'.view.shape_array = NoArray
    /\ (call'.fn = "foreach_tile" /\ ~call'.view._same_tiles)
         => /\ call'.view.shape_array # NoArray
            /\ call'.view.shape_array.shape = call'.view.shape
    /\ call # NoCall =>
         /\ call'.view._same_tiles = call.view._same_tiles
         /\ call.view.shape_array # NoArray
              => call'.view.shape_array = call.view.shape_array
         /\ call'.view.shape_array # call.view.shape_array => call'.fn = "foreach_tile"
         /\ [call'.view EXCEPT !.shape_array = NoArray] = call.view
              \/ call'.view = call.view

\* C22: _same_tiles is decided at construction and never changes; shape_array is
\* absent after construction, stays absent while _same_tiles is true, is created by
\* the first foreach_tile when _same_tiles is false, and once created is not
\* replaced by a later foreach_tile or fetch.
C22_ReshapeStateMachine == [][ViewStepOk]_vars

\* a fetch on a view whose shape_array an earlier foreach_tile created
C22_Witness ==
  /\ call # NoCall
  /\ call.fn = "Reshape.fetch"
  /\ ~call.view._same_tiles
  /\ call.view.shape_array # NoArray
  /\ Cardinality(DOMAIN call.view.shape_array.extents) >= 2

\* every tile of the new shape has a ravelled range that find_rect gives back as it is
TilesReconstruct(v) ==
  LET slcs == Product(Splits(v.shape, Hint(v._tile_shape)))
  IN \A k \in 1..Len(slcs) :
       LET ul  == [d \in 1..Len(v.shape) |-> slcs[k][d][1]]
           lr  == [d \in 1..Len(v.shape) |-> slcs[k][d][2]]
           rav == _ravelled_ex(ul, lr, v.shape)
       IN find_rect(rav.ul, rav.lr, v.base.shape) = rav

\* C23 (as claimed): after the construction of a view of the size of its base,
\* _same_tiles is true exactly when every tile of the new shape reconstructs to an
\* exact rectangle of the base, or the new shape only appends axes to the shape of the
\* base.
C23_SameTilesExact ==
  (/\ call # NoCall
   /\ call.fn = "Reshape"
   /\ Prod(call.view.shape) = Prod(call.view.base.shape))
  => (call.view._same_tiles
        <=> (TilesReconstruct(call.view)
               \/ ExtentsUnchecked(call.view.base.shape, call.view.shape)))

----------------------------------------------------------------------------
\* ReshapeExpr._evaluate: the retile before the view is built

\* DistArray.tile_shape(): the shape most extents have; among several such shapes the
\* one the dict lists last, any of them
tile_shape(da) ==
  LET shapes   == {ExtShape(e) : e \in DOMAIN da.extents}
      count(u) == Cardinality({e \in DOMAIN da.extents : ExtShape(e) = u})
  IN {u \in shapes : \A w \in shapes : count(w) <= count(u)}

\* the value of the field dimension_update of ReshapeExpr
dimension_update == FALSE

\* retile(v, tile_hint).force(): a new array of the shape of v, split by tile_hint
retile(v, tile_hint) == create(v.shape, v.dtype, "none", Hint(tile_hint), NumShards)

NoView == [kind |-> "none"]

\* _evaluate for the array v, ts being what v.tile_shape() returns
ReshapeExpr_evaluate(v, new_shape, ts, num_workers) ==
  LET retiles  == /\ ~dimension_update
                  /\ Len(v.shape) > 1
                  /\ ~(Prod(Tail(ts)) = Prod(Tail(v.shape)))
      new_tile == <<v.shape[1] \div num_workers>> \o Tail(v.shape)
      forced   == retile(v, new_tile)
  IN IF ~retiles
       THEN [err |-> "none", retiled |-> FALSE, view |-> Reshape(v, new_shape).view]
     ELSE IF forced.err # "none"
       THEN [err |-> forced.err, retiled |-> TRUE, view |-> NoView]
     ELSE [err |-> "none", retiled |-> TRUE,
           view |-> Reshape(forced.darray, new_shape).view]

\* the evaluation of reshape(array, new_shape) on a cluster of num_workers workers
CallEvaluate ==
  /\ call = NoCall
  /\ \E new_shape \in ReshapeShapes : \E ts \in tile_shape(darray) :
       \E num_workers \in 1..NumShards :
         /\ Prod(new_shape) = Prod(darray.shape)
         /\ call' = [fn |-> "ReshapeExpr._evaluate", new_shape |-> new_shape,
                     num_workers |-> num_workers,
                     result |-> ReshapeExpr_evaluate(darray, new_shape, ts, num_workers)]
  /\ UNCHANGED <<darray, table, last, pending>>

RetileNext ==
  \/ CallEvaluate
  \/ ViewReturn

RetileSpec == ReshapeInit /\ [][RetileNext]_vars

\* some tile of the array is narrower than the array on an axis other than the first
InnerAxesSplit(da) ==
  \E e \in DOMAIN da.extents : \E i \in 2..Len(da.shape) : ExtShape(e)[i] # da.shape[i]

\* C25 (as claimed): the evaluation retiles exactly when the array has rank > 1 and
\* its tiles split an inner axis; the retile, with the tile shape (rows div num_workers,
\* inner axes), then gives an array whose extents cover every index once and hold
\* the inner axes whole.
C25_RetileBeforeReshape ==
  call.fn = "ReshapeExpr._evaluate" =>
    /\ call.result.retiled <=> (Len(darray.shape) > 1 /\ InnerAxesSplit(darray))
    /\ call.result.retiled =>
         /\ call.result.err = "none"
         /\ LET base == call.result.view.base
            IN /\ base.shape = darray.shape
               /\ ~InnerAxesSplit(base)
               /\ \A e \in DOMAIN base.extents :
                    ExtShape(e)[1] <= Max(1, darray.shape[1] \div call.num_workers)
               /\ \A p \in IndexSet(base.shape) :
                    Cardinality({e \in DOMAIN base.extents : p \in ExtIndices(e)}) = 1

----------------------------------------------------------------------------
\* foreach and map_to_table over a Slice view

NotInvoked == [invoked |-> FALSE, offset |-> NoneExtent, subtile |-> NoData]

\* slice_mapper with the intersection itself as the offset
slice_mapper_GlobalOffset(ex, tile, slice_extent) ==
  LET isect == intersection(slice_extent, ex)
  IN IF isect = NoneExtent THEN NotInvoked
     ELSE [invoked |-> TRUE, offset |-> isect,
           subtile |-> GetSlice(tile, offset_slice(ex, isect))]

\* slice_mapper(ex, tile, _slice_extent = slice_extent): whether the user function
\* is called, and the offset and the subtile it is called with
slice_mapper(ex, tile, slice_extent) ==
  LET isect == intersection(slice_extent, ex)
  IN IF isect = NoneExtent THEN NotInvoked
     ELSE [invoked |-> TRUE, offset |-> offset_from(slice_extent, isect),
           subtile |-> GetSlice(tile, offset_slice(ex, isect))]

\* spartan.foreach(table, fn = slice_mapper, kw) and spartan.map_items(table,
\* mapper_fn = slice_mapper, kw): slice_mapper runs once on every stored (key, tile)
MapOverTable(t, slice_extent) ==
  [item \in TableKeys(t) |->
     slice_mapper(item.key, t.store[item.shard][item.key], slice_extent)]

\* Slice(array, S).foreach(mapper_fn, kw) for a non-empty slice S
CallSliceForeach ==
  /\ call = NoCall
  /\ ~ZeroFilled(table)
  /\ \E S \in {x \in Regions(darray.shape) : ExtSize(x) > 0} :
       call' = [fn |-> "Slice.foreach", view |-> Slice(darray, S),
                calls |-> MapOverTable(table, Slice(darray, S).slice)]
  /\ UNCHANGED <<darray, table, last, pending>>

\* Slice(array, S).map_to_table(mapper_fn, kw) for a non-empty slice S
CallSliceMapToTable ==
  /\ call = NoCall
  /\ ~ZeroFilled(table)
  /\ \E S \in {x \in Regions(darray.shape) : ExtSize(x) > 0} :
       call' = [fn |-> "Slice.map_to_table", view |-> Slice(darray, S),
                calls |-> MapOverTable(table, Slice(darray, S).slice)]
  /\ UNCHANGED <<darray, table, last, pending>>

SliceMapNext ==
  \/ Populate
  \/ CallSliceForeach
  \/ CallSliceMapToTable
  \/ ViewReturn

SliceMapSpec == ReshapeInit /\ [][SliceMapNext]_vars

\* the calls of the user function for the tile of the extent e
CallsFor(e) == {item \in DOMAIN call.calls : item.key = e /\ call.calls[item].invoked}

\* C26: a foreach or map_to_table over a Slice view calls the user function once for
\* every tile of the array whose extent shares an index with the slice and never for
\* another tile; the call gets the intersection in the coordinates of the slice
\* (intersection.ul - slice.ul) and the elements of the tile inside the intersection.
C26_SliceForeach ==
  call.fn \in {"Slice.foreach", "Slice.map_to_table"} =>
    LET S == call.view.slice
    IN \A e \in DOMAIN darray.extents :
         LET common == ExtIndices(e) \cap ExtIndices(S)
         IN /\ Cardinality(CallsFor(e)) = IF common = {} THEN 0 ELSE 1
            /\ \A item \in CallsFor(e) :
                 LET c == call.calls[item]
                 IN /\ {GlobalIndex(S, q) : q \in ExtIndices(c.offset)} = common
                    /\ c.offset.array_shape = ExtShape(S)
                    /\ c.subtile.shape = ExtShape(c.offset)
                    /\ \A p \in IndexSet(c.subtile.shape) :
                         c.subtile.data[p]
                           = StoredAt(table, GlobalIndex(S, GlobalIndex(c.offset, p)))

\* an array of rank 1 in three tiles and a slice that starts inside the second:
\* two calls, at the offsets 0 and 2 of the slice, none for the first tile
C26_Witness ==
  /\ call.fn = "Slice.foreach"
  /\ Len(darray.shape) = 1
  /\ Cardinality(DOMAIN darray.extents) = 3
  /\ call.view.slice.ul = <<2>>
  /\ {call.calls[item].offset.ul : item \in {i \in DOMAIN call.calls : call.calls[i].invoked}}
       = {<<0>>, <<2>>}
  /\ \E item \in DOMAIN call.calls : ~call.calls[item].invoked

----------------------------------------------------------------------------
\* Frame conditions of update and of the operations that read

\* an update step that ended without an error leaves every stored element outside
\* its region as it was
UpdateKeepsOutside ==
  (last.op = "none" /\ last'.op = "update" /\ last'.err = "none") =>
    \A q \in IndexSet(darray.shape) :
      (Owners(q) # {} /\ q \notin ExtIndices(last'.region))
        => StoredAt(table', q) = StoredAt(table, q)

\* C28 (as claimed): update(region, data) changes only elements inside region, for
\* every region that cuts through stored extents and every combiner of the table
\* (none, replace, sum, min, max): the other elements of the owning tiles keep
\* their values.
C28_UpdateFrame == [][UpdateKeepsOutside]_vars

----------------------------------------------------------------------------
\* The operations of a DistArray and of the views over it, each with the array
\* object it leaves behind: the methods of DistArray assign no field, a view keeps
\* the array it was given in its field darray (Slice) or base (Broadcast).

\* update(region, data) and update_slice on an array of zeros: ones in a region
FrameUpdate ==
  /\ call = NoCall
  /\ ZeroFilled(table)
  /\ \E region \in {x \in Regions(darray.shape) : ExtSize(x) > 0} :
       LET r == update(darray, table, region, Filled(ExtShape(region), darray.dtype, 1))
       IN /\ r.err = "none"
          /\ table' = r.table
          /\ call' = [fn |-> "update", region |-> region]
  /\ UNCHANGED <<darray, last, pending>>

\* fetch(region), select(region)
FrameFetch ==
  /\ call = NoCall
  /\ \E region \in Regions(darray.shape) : \E garbage \in 0..MaxVal :
       call' = [fn |-> "fetch", region |-> region,
                result |-> fetch(darray, table, region, garbage).value]
  /\ UNCHANGED <<darray, table, last, pending>>

\* glom(): select(np.index_exp[:]), the fetch of the whole extent
FrameGlom ==
  /\ call = NoCall
  /\ \E garbage \in 0..MaxVal :
       call' = [fn |-> "glom",
                result |-> fetch(darray, table, WholeExtent(darray.shape), garbage).value]
  /\ UNCHANGED <<darray, table, last, pending>>

\* best_locality(array, region)
FrameBestLocality ==
  /\ call = NoCall
  /\ \E region \in Regions(darray.shape) :
       \E items \in Orders(DOMAIN LocalityCounts(darray, region)) :
         call' = [fn |-> "best_locality", region |-> region,
                  result |-> best_locality(darray, region, items)]
  /\ UNCHANGED <<darray, table, last, pending>>

\* foreach(fn, kw) and map_to_table(mapper_fn): one call of the function per stored tile
FrameForeach ==
  /\ call = NoCall
  /\ \E fn \in {"foreach", "map_to_table"} :
       call' = [fn |-> fn, tiles |-> TableKeys(table)]
  /\ UNCHANGED <<darray, table, last, pending>>

\* Slice(array, S), then glom, fetch of the whole slice and foreach on the view
FrameSlice ==
  /\ call = NoCall
  /\ \E S \in {x \in Regions(darray.shape) : ExtSize(x) > 0} : \E garbage \in 0..MaxVal :
       LET view == Slice(darray, S)
       IN /\ darray' = view.darray
          /\ call' = [fn |-> "Slice", view |-> view,
                      result |-> Slice_fetch(view, table, WholeExtent(view.shape),
                                             garbage).value,
                      calls |-> MapOverTable(table, view.slice)]
  /\ UNCHANGED <<table, last, pending>>

\* broadcast([array, other]) and the fetch of the whole of the Broadcast view
FrameBroadcast ==
  /\ call = NoCall
  /\ \E other \in BcastShapes :
       LET b == broadcast(<<darray, ArrayObj(2, other)>>)
       IN /\ b.err = "none"
          /\ b.results[1] # darray
          /\ darray' = b.results[1].base
          /\ \E garbage \in 0..MaxVal :
               call' = [fn |-> "Broadcast", view |-> b.results[1],
                        result |-> Broadcast_fetch(b.results[1], table,
                                                   WholeExtent(b.results[1].shape),
                                                   garbage)]
  /\ UNCHANGED <<table, last, pending>>

\* the operation has returned
FrameReturn ==
  /\ call # NoCall
  /\ call' = NoCall
  /\ UNCHANGED <<darray, table, last, pending>>

FrameNext ==
  \/ FrameUpdate
  \/ FrameFetch
  \/ FrameGlom
  \/ FrameBestLocality
  \/ FrameForeach
  \/ FrameSlice
  \/ FrameBroadcast
  \/ FrameReturn

FrameSpec == ViewInit /\ [][FrameNext]_vars

\* C27: no operation on a DistArray or on a Slice or Broadcast view over it changes
\* its extents map: fetch, update, update_slice, select, glom, best_locality, foreach,
\* map_to_table and the construction and use of the views leave the set of extents
\* and the shard of each as they were.
C27_ExtentsImmutable ==
  [][/\ DOMAIN darray'.extents = DOMAIN darray.extents
     /\ \A e \in DOMAIN darray.extents : darray'.extents[e] = darray.extents[e]]_vars

\* a Slice view that overlaps only some of the several tiles of an array that holds
\* data has been built and used
C27_Witness ==
  /\ call.fn = "Slice"
  /\ ~ZeroFilled(table)
  /\ Cardinality(DOMAIN darray.extents) >= 2
  /\ Len(call.view.extents) < Cardinality(DOMAIN darray.extents)

----------------------------------------------------------------------------
\* compute_splits without a tile hint

\* max(1, TILE_SIZE div w) for w the product of the sizes of the axes inner to d
ChunkSize(shape, d) ==
  LET w == Prod(SubSeq(shape, d + 1, Len(shape)))
  IN IF TILE_SIZE \div w >= 1 THEN TILE_SIZE \div w ELSE 1

\* C29: without a tile hint compute_splits cuts the axis d into chunks of
\* max(1, TILE_SIZE div w), w the product of the sizes of the axes inner to d; the
\* chunk size is at least 1 and no extent holds more than TILE_SIZE elements.
C29_DefaultChunks ==
  (/\ call.fn = "compute_splits" /\ call.done
   /\ ~call.tile_hint.given /\ Len(call.shape) > 0) =>
    LET exts == DOMAIN call.result.extents
        rank == Len(call.shape)
    IN /\ call.result.err = "none"
       /\ \A d \in 1..rank : ChunkSize(call.shape, d) >= 1
       /\ \A e \in exts :
            /\ ExtSize(e) <= TILE_SIZE
            /\ \A d \in 1..rank :
                 <<e.ul[d], e.lr[d]>> \in Chunks(call.shape[d], ChunkSize(call.shape, d))
       /\ Cardinality(exts)
            = Prod([d \in 1..rank |->
                      Cardinality(Chunks(call.shape[d], ChunkSize(call.shape, d)))])

\* no hint, an inner axis longer than the tile budget: the outer axis is cut into
\* rows, the inner one into chunks of TILE_SIZE
C29_Witness ==
  /\ call.fn = "compute_splits" /\ call.done
  /\ ~call.tile_hint.given
  /\ Len(call.shape) = 2
  /\ call.shape[1] >= 2
  /\ call.shape[2] > TILE_SIZE
  /\ \E e \in DOMAIN call.result.extents : ExtShape(e) = <<1, TILE_SIZE>>

-----------------------------------------------------------------------------
\* spartan.initialize and spartan.shutdown: the process-wide context CTX

\* a run of the state machine makes at most MaxCalls calls
MaxCalls == 4

\* CTX = None
NoMaster == [id |-> 0, num_workers |-> 0, workers |-> <<>>]

\* the object spartan.master.Master(port_base, num_workers) builds; id stands for the
\* identity of the object
Master(id, num_workers) == [id |-> id, num_workers |-> num_workers, workers |-> <<>>]

divup(a, b) == (a + b - 1) \div b

RECURSIVE SumCounts(_)

\* FLAGS.hosts as the sequence of the slot counts of the hosts
HostLists == {<<1>>, <<NumShards>>, <<1, 1>>}

AssignModes == {"BY_CORE", "BY_NODE"}

\* what config.parse(argv) can leave in FLAGS
FlagValues ==
  [num_workers : 1..NumShards, cluster : BOOLEAN, hosts : HostLists,
   assign_mode : AssignModes]

\* sum([cnt for _, cnt in FLAGS.hosts])
SumCounts(hosts) == IF Len(hosts) = 0 THEN 0 ELSE Head(hosts) + SumCounts(Tail(hosts))

\* the loop of start_cluster over FLAGS.hosts from host i on, count workers started
\* so far: the start_remote_worker calls it makes
RECURSIVE StartWorkers(_, _, _, _, _)
StartWorkers(hosts, i, count, num_workers, assign_mode) ==
  IF i > Len(hosts) THEN <<>>
  ELSE LET total_tasks == hosts[i]
           num_hosts == Len(hosts)
           sz0 == IF assign_mode = "BY_CORE" THEN total_tasks
                  ELSE divup(num_workers, num_hosts)
           sz == Min(sz0, num_workers - count)
           started == <<[worker |-> i, st |-> count, ed |-> count + sz]>>
       IN IF count + sz = num_workers THEN started
          ELSE started \o StartWorkers(hosts, i + 1, count + sz, num_workers,
                                       assign_mode)

\* start_cluster(num_workers, use_cluster_workers) under the flags, id the identity
\* of the Master it builds: the outcome, the master returned, and whether a Master
\* was built. Worker 0 stands for 'localhost'.
start_cluster(num_workers, use_cluster_workers, flags, id) ==
  LET master == Master(id, num_workers)
  IN IF ~use_cluster_workers
     THEN [err |-> "none", built |-> TRUE,
           master |-> [master EXCEPT
                         !.workers = <<[worker |-> 0, st |-> 0, ed |-> num_workers]>>]]
     ELSE LET available_workers == SumCounts(flags.hosts)
          IN IF ~(available_workers >= num_workers)
             THEN [err |-> "AssertionError", built |-> TRUE, master |-> NoMaster]
             ELSE [err |-> "none", built |-> TRUE,
                   master |-> [master EXCEPT
                                 !.workers = StartWorkers(flags.hosts, 1, 0, num_workers,
                                                          flags.assign_mode)]]

\* an initialize that starts a cluster whatever CTX holds
initialize_NoGuard(CTX, flags, id) ==
  LET r == start_cluster(flags.num_workers, flags.cluster, flags, id)
  IN IF r.err # "none"
     THEN [err |-> r.err, ret |-> NoMaster, CTX |-> CTX, built |-> r.built,
           started |-> 0]
     ELSE [err |-> "none", ret |-> r.master, CTX |-> r.master, built |-> r.built,
           started |-> r.master.id]

\* initialize(argv), argv parsed into flags: the outcome, the value returned, CTX
\* afterwards, whether a Master was built, and the cluster started (0: none)
initialize(CTX, flags, id) ==
  IF CTX # NoMaster
  THEN [err |-> "none", ret |-> CTX, CTX |-> CTX, built |-> FALSE, started |-> 0]
  ELSE LET r == start_cluster(flags.num_workers, flags.cluster, flags, id)
       IN IF r.err # "none"
          THEN [err |-> r.err, ret |-> NoMaster, CTX |-> CTX, built |-> r.built,
                started |-> 0]
          ELSE [err |-> "none", ret |-> r.master, CTX |-> r.master, built |-> r.built,
                started |-> r.master.id]

\* shutdown(): CTX.shutdown() on None raises AttributeError before the assignment
shutdown(CTX) ==
  IF CTX = NoMaster
  THEN [err |-> "AttributeError", CTX |-> CTX, stopped |-> 0]
  ELSE [err |-> "none", CTX |-> NoMaster, stopped |-> CTX.id]

\* the module after import: CTX = None, no Master built, no call made
CtxInit ==
  /\ darray = NoArray
  /\ table = NoTable
  /\ last = NoOp
  /\ pending = <<>>
  /\ call = [fn |-> "spartan", CTX |-> NoMaster, masters |-> 0, log |-> <<>>]

CallInitialize ==
  /\ call.fn = "spartan"
  /\ Len(call.log) < MaxCalls
  /\ \E flags \in FlagValues :
       LET r == initialize(call.CTX, flags, call.masters + 1)
       IN call' = [call EXCEPT
                     !.CTX = r.CTX,
                     !.masters = IF r.built THEN @ + 1 ELSE @,
                     !.log = Append(@, [fn |-> "initialize", err |-> r.err,
                                        ret |-> r.ret.id, started |-> r.started])]
  /\ UNCHANGED <<darray, table, last, pending>>

CallShutdown ==
  /\ call.fn = "spartan"
  /\ Len(call.log) < MaxCalls
  /\ LET r == shutdown(call.CTX)
     IN call' = [call EXCEPT
                   !.CTX = r.CTX,
                   !.log = Append(@, [fn |-> "shutdown", err |-> r.err,
                                      ret |-> 0, started |-> 0])]
  /\ UNCHANGED <<darray, table, last, pending>>

CtxNext ==
  \/ CallInitialize
  \/ CallShutdown

CtxSpec == CtxInit /\ [][CtxNext]_vars

\* call i of the log gave CTX a value: an initialize that returned
Returned(log, i) == log[i].fn = "initialize" /\ log[i].err = "none"

\* no shutdown among the calls i..j of the log
NoShutdownIn(log, i, j) == \A k \in i..j : log[k].fn # "shutdown"

\* CTX is unset when call i is made: no earlier initialize has returned since the
\* last shutdown (or since the import)
UnsetBefore(log, i) ==
  \A j \in 1..(i - 1) : Returned(log, j) => ~NoShutdownIn(log, j + 1, i - 1)

\* C30: over any sequence of initialize and shutdown calls, a cluster is started only
\* by an initialize that finds CTX unset, and every such initialize that returns starts
\* a new one; initialize calls with no shutdown in between start at most one cluster
\* and those that return all return its context; an initialize that finds CTX set
\* returns it without raising; after a shutdown CTX is unset, and CTX is set exactly
\* when an initialize has returned since the last shutdown.
C30_InitializeOnce ==
  call.fn = "spartan" =>
    LET log == call.log
        n == Len(log)
    IN /\ \A i \in 1..n :
            /\ log[i].started # 0 =>
                 log[i].fn = "initialize" /\ UnsetBefore(log, i)
            /\ (log[i].fn = "initialize" /\ UnsetBefore(log, i) /\ log[i].err = "none") =>
                 /\ log[i].started # 0
                 /\ log[i].ret = log[i].started
                 /\ \A j \in 1..(i - 1) : log[j].started # log[i].started
            /\ (log[i].fn = "initialize" /\ ~UnsetBefore(log, i)) =>
                 log[i].err = "none" /\ log[i].started = 0
       /\ \A i \in 1..n : \A j \in (i + 1)..n :
            (Returned(log, i) /\ Returned(log, j) /\ NoShutdownIn(log, i, j)) =>
              /\ log[j].ret = log[i].ret
              /\ log[j].started = 0
       /\ (n > 0 /\ log[n].fn = "shutdown") => call.CTX = NoMaster
       /\ (call.CTX = NoMaster) <=> UnsetBefore(log, n + 1)
       /\ \A i \in 1..n :
            (Returned(log, i) /\ NoShutdownIn(log, i, n)) => call.CTX.id = log[i].ret

\* initialize twice, shutdown, initialize: the first two calls return the one cluster
\* the first started, the last starts and returns a second one
C30_Witness ==
  /\ call.fn = "spartan"
  /\ Len(call.log) = 4
  /\ call.log[1].fn = "initialize" /\ call.log[1].started # 0
  /\ call.log[2].fn = "initialize" /\ call.log[2].started = 0
  /\ call.log[2].ret = call.log[1].ret
  /\ call.log[3].fn = "shutdown" /\ call.log[3].err = "none"
  /\ call.log[4].fn = "initialize" /\ call.log[4].started # 0
  /\ call.log[4].ret # call.log[1].ret
  /\ call.CTX.id = call.log[4].ret

====
